---- MODULE Spec2Model ----
(***************************************************************************)
(* x402 gateway: the facilitator request pipeline (handlePayment and its  *)
(* collaborators), the receipt subsystem (build, sign, verify, extract)   *)
(* and the resource-server adapter (withX402 over ReceiptVerifier).       *)
(***************************************************************************)
EXTENDS Integers, Sequences, FiniteSets, TLC

VARIABLES
    now,         \* Date.now() in whole unix seconds
    \* ---- facilitator (packages/facilitator) ----
    pc,          \* position of the request in handlePayment
    body,        \* the request body as read by the server
    feeCfg,      \* config.feePercent, in thousandths of a percent
    netInfo,     \* resolveNetwork's answer
    checks,      \* the checks that passed, in the order they ran
    timeNow,     \* the clock value validateTimeWindow read
    fees,        \* calculateFee's answer
    execCalls,   \* how often executor.execute was invoked for this request
    execOut,     \* what the executor answered
    minted,      \* receipts built for this request
    responses,   \* HTTP responses sent for this request
    sent,        \* what the client signed and how the body was changed after
    \* ---- calculateFee called on its own ----
    feeArgs,     \* the amount and the fee percent it is called with
    feeRet,      \* the FeeBreakdown it returned
    \* ---- a receipt's life: built, signed, carried, verified ----
    rcStage,     \* "start", "built", "signed" or "verified"
    rcReceipt,   \* the receipt buildReceipt returned
    rcToken,     \* the token as the verifier is handed it
    rcOpts,      \* the options verifyReceipt was called with
    rcAt,        \* the clock when verifyReceipt was called
    rcRet,       \* what verifyReceipt returned
    \* ---- resource server (packages/nextjs, ReceiptVerifier) ----
    cache,       \* ReceiptVerifier.cache: token -> receipt and verifiedAt
    request,     \* the last request the protected route received
    outcome,     \* what protectedHandler did with it
    \* ---- BudgetManager (packages/agent/src/budget.ts) ----
    policy,      \* the SpendingPolicy it was constructed with
    totalSpent,  \* BudgetManager.totalSpent
    history,     \* BudgetManager.history
    budgetCall,  \* the last call of one of its methods, and how it ended
    \* ---- ReceiptCache (packages/agent/src/cache.ts) ----
    receiptCache, \* ReceiptCache.cache: contentId -> token and expiresAt (ms)
    accessCount, \* ReceiptCache.accessCount
    defaultTTL,  \* ReceiptCache.defaultTTL, in seconds
    cacheCall,   \* the last call of one of its methods, and what it returned
    written,     \* per contentId, the last set that no delete or clear followed
    \* ---- submitToFacilitatorWithRetry (packages/core/src/facilitator.ts) ----
    retryOpts,   \* the options it was called with
    retryPc,     \* "idle", "submit", "wait" or "done"
    attempt,     \* the loop variable
    retryLog,    \* the submissions made and the delays waited, in order
    lastError,   \* the error of the last failed submission
    retryOut,    \* what the call returned or threw
    \* ---- X402AgentClient (packages/agent/src/client.ts) ----
    agentPc,     \* where the fetch or pay call in progress stands
    agentCall,   \* the call in progress: its url, headers and payment request
    steps,       \* what the call in progress did so far, in order
    agentOut,    \* how the last call ended
    calls,       \* how many fetch and pay calls were made
    paidFor,     \* per url, the receipt a fetch paid for, while no reset and
                 \* no other payment for the url followed
    listeners,   \* X402AgentClient.listeners: per event, what each handler does
    emitted,     \* the events the call in progress emitted, in order
    flows,       \* the payment sub-flows of calls that overlap on one client
    pureCall,    \* the last application of a function: its input and result
    handling,    \* the requests the facilitator handles at the same time: the
                 \* locals of each handlePayment call
    signal,      \* the AbortSignal of the caller: whether it fired, and how
                 \* much the call had done by then
    payment      \* one payment sub-flow: what it signed and what it posted to
                 \* the facilitator

fvars == <<pc, body, feeCfg, netInfo, checks, timeNow, fees, execCalls,
           execOut, minted, responses, sent>>

feevars == <<feeArgs, feeRet>>

rvars == <<rcStage, rcReceipt, rcToken, rcOpts, rcAt, rcRet>>

avars == <<cache, request, outcome>>

bvars == <<policy, totalSpent, history, budgetCall>>

cvars == <<receiptCache, accessCount, defaultTTL, cacheCall, written>>

tvars == <<retryOpts, retryPc, attempt, retryLog, lastError, retryOut>>

gvars == <<agentPc, agentCall, steps, agentOut, calls, paidFor, listeners, emitted,
           flows>>
pvars == <<pureCall>>
hvars == <<handling>>
xvars == <<signal>>
yvars == <<payment>>

vars == <<now, fvars, feevars, rvars, avars, bvars, cvars, tvars, gvars, pvars, hvars, xvars, yvars>>

\* what the facilitator's actions leave alone
outsideF == <<feevars, rvars, avars, bvars, cvars, tvars, gvars, pvars, hvars, xvars, yvars>>
\* what a call of calculateFee leaves alone
outsideFee == <<now, fvars, rvars, avars, bvars, cvars, tvars, gvars, pvars, hvars, xvars, yvars>>
\* what the receipt's life leaves alone
outsideR == <<fvars, feevars, avars, bvars, cvars, tvars, gvars, pvars, hvars, xvars, yvars>>
\* what the resource server leaves alone
outsideA == <<fvars, feevars, rvars, bvars, cvars, tvars, gvars, pvars, hvars, xvars, yvars>>
\* what the budget manager leaves alone
outsideB == <<now, fvars, feevars, rvars, avars, cvars, tvars, gvars, pvars, hvars, xvars, yvars>>
\* what the receipt cache leaves alone
outsideC == <<fvars, feevars, rvars, avars, bvars, tvars, gvars, pvars, hvars, xvars, yvars>>
\* what the retry loop leaves alone
outsideT == <<now, fvars, feevars, rvars, avars, bvars, cvars, gvars, pvars, hvars, xvars, yvars>>

----------------------------------------------------------------------------
(* Bounds of the model *)

\* the clock runs over 0..MaxNow
MaxNow == 3

\* calculateFee is called with every amount in 0..MaxFeeAmount
MaxFeeAmount == 40

\* a budget manager records at most MaxRecords spends between two resets
MaxRecords == 2

\* submitToFacilitatorWithRetry is called with maxRetries up to MaxRetries
MaxRetries == 3

\* a receipt cache serves MaxGets gets, from a fresh start and again from
\* MaxGets accesses short of a periodic sweep
MaxGets == 2
MaxCalls == 2

----------------------------------------------------------------------------
(* JSON values as the handler sees them *)

Undefined == [type |-> "undefined"]
Null == [type |-> "null"]
Str(s) == [type |-> "string", s |-> s]
Num(n) == [type |-> "number", n |-> n]
Obj(f) == [type |-> "object", f |-> f]

\* a decimal string is a tuple of character codes: 0..9 are the digits, any
\* other code is a character that is no digit
IsDigits(d) == \A i \in 1..Len(d) : d[i] \in 0..9

RECURSIVE ParseDigits(_)
ParseDigits(d) ==
    IF d = <<>> THEN 0
    ELSE 10 * ParseDigits(SubSeq(d, 1, Len(d) - 1)) + d[Len(d)]

\* bigint.toString()
RECURSIVE BigIntToString(_)
BigIntToString(n) ==
    IF n < 10 THEN <<n>> ELSE BigIntToString(n \div 10) \o <<n % 10>>

\* BigInt(x): defined for integral numbers and integer strings, throws otherwise
BigIntThrows(x) ==
    CASE x.type = "number" -> FALSE
      [] x.type = "string" -> ~IsDigits(x.s)
      [] OTHER -> TRUE

BigInt(x) == IF x.type = "number" THEN x.n ELSE ParseDigits(x.s)

\* the relational operators coerce a numeric string to its number
ToNumber(x) == IF x.type = "number" THEN x.n ELSE ParseDigits(x.s)

----------------------------------------------------------------------------
(* Addresses, keys and the network registry *)

\* the secp256k1 keys of the model and the EIP-55 form of their addresses
Keys == {"k1", "k2"}

Address(k) == IF k = "k1" THEN "0xAa01" ELSE "0xBb02"

Payee == "0xCc03"
OtherPayee == "0xDd04"
\* what recovery yields for a signature that does not fit the digest
StrayAddress == "0xEe05"

\* String.prototype.toLowerCase on the strings of the model
ToLowerCase(s) ==
    CASE s = "0xAa01" -> "0xaa01"
      [] s = "0xBb02" -> "0xbb02"
      [] s = "0xCc03" -> "0xcc03"
      [] s = "0xDd04" -> "0xdd04"
      [] s = "0xEe05" -> "0xee05"
      [] OTHER -> s

\* viem's isAddress: 20 hex bytes, all lower case or EIP-55 checksummed
IsAddress(s) ==
    s \in {"0xAa01", "0xaa01", "0xBb02", "0xbb02", "0xCc03", "0xcc03",
           "0xDd04", "0xdd04", "0xEe05", "0xee05"}

\* s.startsWith('0x') on the strings of the model
StartsWith0x(s) ==
    IsAddress(s) \/ s \in {"0xzz", "0xab..ab", "0x01..01"}

NUMERIC_CHAIN_IDS == [n \in {"base-mainnet", "base-sepolia"} |->
                        IF n = "base-mainnet" THEN 8453 ELSE 84532]

USDC_ADDRESSES == [n \in {"base-mainnet", "base-sepolia"} |->
                     IF n = "base-mainnet" THEN "0x833589f" ELSE "0x036CbD5"]

\* `eip155:${id}`
Caip2(id) ==
    CASE id = 8453 -> "eip155:8453"
      [] id = 84532 -> "eip155:84532"
      [] OTHER -> "eip155:1"

NoNetwork == [x402Network |-> "none", chainId |-> 0]

resolveNetwork(network) ==
    IF \E name \in DOMAIN NUMERIC_CHAIN_IDS : network = Caip2(NUMERIC_CHAIN_IDS[name])
    THEN LET name == CHOOSE nm \in DOMAIN NUMERIC_CHAIN_IDS :
                         network = Caip2(NUMERIC_CHAIN_IDS[nm])
         IN  [x402Network |-> name, chainId |-> NUMERIC_CHAIN_IDS[name]]
    ELSE NoNetwork

buildDomain(chainId, x402Network) ==
    [name |-> "USD Coin", version |-> "2", chainId |-> chainId,
     verifyingContract |-> USDC_ADDRESSES[x402Network]]

----------------------------------------------------------------------------
(* EIP-712 signatures (viem), idealised: a digest is the pair of domain and  *)
(* typed message, and a signature fits exactly the digest it was made over   *)

\* the message as hashTypedData encodes it: addresses as 20 bytes, uint256
\* as integers
TypedMessage(auth) ==
    [from |-> ToLowerCase(auth.from.s), to |-> ToLowerCase(auth.to.s),
     value |-> BigInt(auth.value), validAfter |-> BigInt(auth.validAfter),
     validBefore |-> BigInt(auth.validBefore), nonce |-> auth.nonce.s]

\* account.signTypedData
SignTypedData(key, domain, message) ==
    [hex |-> TRUE, kind |-> "ecdsa", key |-> key,
     digest |-> [domain |-> domain, message |-> message]]

\* 65 bytes that are nobody's signature over anything the model hashes
RandomSignature == [hex |-> TRUE, kind |-> "random65", key |-> "none"]
\* a hex string that is no 65-byte signature
ShortSignature == [hex |-> TRUE, kind |-> "short", key |-> "none"]
\* a string without the 0x prefix
UnprefixedSignature == [hex |-> FALSE, kind |-> "short", key |-> "none"]

\* hashing throws for a field that does not fit its EIP-712 type
TypedDataThrows(auth) ==
    \/ ~IsAddress(auth.from.s)
    \/ ~IsAddress(auth.to.s)
    \/ auth.nonce.s \notin {"0xab..ab", "0x01..01"}

\* recoverTypedDataAddress: the signer's address when the signature was made
\* over this digest, some unrelated address for another 65-byte signature
RecoverThrows(signature) == signature.kind = "short"

RecoverTypedDataAddress(domain, message, signature) ==
    IF /\ signature.kind = "ecdsa"
       /\ signature.digest = [domain |-> domain, message |-> message]
    THEN Address(signature.key)
    ELSE StrayAddress

\* recoverSigner throws when a BigInt conversion, the hashing or the
\* recovery throws
recoverSignerThrows(authorization, signature) ==
    \/ BigIntThrows(authorization.value)
    \/ BigIntThrows(authorization.validAfter)
    \/ BigIntThrows(authorization.validBefore)
    \/ TypedDataThrows(authorization)
    \/ RecoverThrows(signature)

recoverSigner(authorization, signature, chainId, x402Network) ==
    RecoverTypedDataAddress(buildDomain(chainId, x402Network),
                            TypedMessage(authorization), signature)

ZeroAddress == "0x0000"

verifySignatureExact(authorization, signature, chainId, x402Network) ==
    IF recoverSignerThrows(authorization, signature)
    THEN [valid |-> FALSE, recoveredAddress |-> ZeroAddress,
          error |-> "Signature recovery failed"]
    ELSE LET recovered == recoverSigner(authorization, signature, chainId, x402Network)
         IN  IF authorization.from.s # recovered
             THEN [valid |-> FALSE, recoveredAddress |-> recovered,
                   error |-> "Signature mismatch"]
             ELSE [valid |-> TRUE, recoveredAddress |-> recovered, error |-> ""]

verifySignature(authorization, signature, chainId, x402Network) ==
    IF recoverSignerThrows(authorization, signature)
    THEN [valid |-> FALSE, recoveredAddress |-> ZeroAddress,
          error |-> "Signature recovery failed"]
    ELSE LET recovered == recoverSigner(authorization, signature, chainId, x402Network)
             fromNormalized == ToLowerCase(authorization.from.s)
             recoveredNormalized == ToLowerCase(recovered)
         IN  IF fromNormalized # recoveredNormalized
             THEN [valid |-> FALSE, recoveredAddress |-> recovered,
                   error |-> "Signature mismatch"]
             ELSE [valid |-> TRUE, recoveredAddress |-> recovered, error |-> ""]

\* a comparison with a value that is no number is false
Comparable(x) ==
    \/ x.type = "number"
    \/ x.type = "string" /\ IsDigits(x.s)

validateTimeWindowLate(authorization, clock) ==
    IF Comparable(authorization.validBefore)
       /\ ToNumber(authorization.validBefore) < clock
    THEN [valid |-> FALSE, error |-> "Authorization expired"]
    ELSE IF Comparable(authorization.validAfter)
            /\ ToNumber(authorization.validAfter) > clock
    THEN [valid |-> FALSE, error |-> "Authorization not yet valid"]
    ELSE [valid |-> TRUE, error |-> ""]

validateTimeWindow(authorization, clock) ==
    IF Comparable(authorization.validBefore)
       /\ ToNumber(authorization.validBefore) <= clock
    THEN [valid |-> FALSE, error |-> "Authorization expired"]
    ELSE IF Comparable(authorization.validAfter)
            /\ ToNumber(authorization.validAfter) > clock
    THEN [valid |-> FALSE, error |-> "Authorization not yet valid"]
    ELSE [valid |-> TRUE, error |-> ""]

----------------------------------------------------------------------------
(* Shape validation (handler.ts) *)

Invalid(msg) == [valid |-> FALSE, error |-> msg]

requiredFields == <<"from", "to", "value", "validAfter", "validBefore", "nonce">>

\* auth[field] for a field name held in a variable
Field(auth, field) ==
    CASE field = "from" -> auth.from
      [] field = "to" -> auth.to
      [] field = "value" -> auth.value
      [] field = "validAfter" -> auth.validAfter
      [] field = "validBefore" -> auth.validBefore
      [] OTHER -> auth.nonce

validateAuthorization(auth) ==
    IF \E i \in 1..Len(requiredFields) :
          Field(auth, requiredFields[i]).type \in {"undefined", "null"}
    THEN Invalid("Missing payload.authorization.<field>")
    ELSE IF auth.from.type # "string" \/ ~StartsWith0x(auth.from.s)
    THEN Invalid("Invalid authorization.from address")
    ELSE IF auth.to.type # "string" \/ ~StartsWith0x(auth.to.s)
    THEN Invalid("Invalid authorization.to address")
    ELSE IF auth.nonce.type # "string" \/ ~StartsWith0x(auth.nonce.s)
    THEN Invalid("Invalid authorization.nonce")
    ELSE [valid |-> TRUE, error |-> ""]

validatePayload(b) ==
    IF b.type # "object"
    THEN Invalid("Request body must be a JSON object")
    ELSE IF b.f.x402Version # Num(1)
    THEN Invalid("Unsupported x402Version")
    ELSE IF b.f.scheme # Str("exact")
    THEN Invalid("Unsupported scheme")
    ELSE IF b.f.network.type # "string"
    THEN Invalid("Missing or invalid network field")
    ELSE IF b.f.resource.type # "string"
    THEN Invalid("Missing or invalid resource field")
    ELSE IF b.f.payload.type # "object"
    THEN Invalid("Missing payload field")
    ELSE IF b.f.payload.f.signature.type # "string"
            \/ ~b.f.payload.f.signature.s.hex
    THEN Invalid("Missing or invalid payload.signature")
    ELSE IF b.f.payload.f.authorization.type # "object"
    THEN Invalid("Missing payload.authorization")
    ELSE validateAuthorization(b.f.payload.f.authorization.f)

----------------------------------------------------------------------------
(* Fee split (fee.ts).  feePercent is a binary float in the code; here it is *)
(* a number of thousandths of a percent, so feePercent * 100 is milli / 10   *)

\* Math.round: to the nearest integer, a half upwards
MathRound10(milli) == (milli + 5) \div 10

calculateFeeCeil(amount, feePercentMilli) ==
    LET total == BigInt(amount)
        feeBps == MathRound10(feePercentMilli)
        fee == (total * feeBps + 9999) \div 10000
        publisherAmount == total - fee
    IN  [totalAmount |-> amount,
         publisherAmount |-> BigIntToString(publisherAmount),
         feeAmount |-> BigIntToString(fee),
         feePercent |-> feePercentMilli]

calculateFee(amount, feePercentMilli) ==
    LET total == BigInt(amount)
        feeBps == MathRound10(feePercentMilli)
        fee == (total * feeBps) \div 10000
        publisherAmount == total - fee
    IN  [totalAmount |-> amount,
         publisherAmount |-> BigIntToString(publisherAmount),
         feeAmount |-> BigIntToString(fee),
         feePercent |-> feePercentMilli]

----------------------------------------------------------------------------
(* Receipts (core/receipt.ts) *)

DEFAULT_RECEIPT_TTL == 86400

\* generateReceiptId draws the id from the clock and Math.random
ReceiptIds == {"rcpt_1", "rcpt_2"}

\* x ?? d
Coalesce(x, d) == IF x.type \in {"undefined", "null"} THEN d ELSE x

buildReceipt(params, clock, id) ==
    LET ttl == Coalesce(params.ttlSeconds, Num(DEFAULT_RECEIPT_TTL)).n
    IN  [id |-> id,
         contentId |-> params.contentId,
         payer |-> params.payer,
         payee |-> params.payee,
         amount |-> params.amount,
         currency |-> Coalesce(params.currency, Str("USDC")).s,
         txHash |-> params.txHash,
         chainId |-> params.chainId,
         paidAt |-> clock,
         expiresAt |-> clock + ttl,
         facilitator |-> Coalesce(params.facilitator,
                                  Str("https://x402.org/facilitator")).s]

\* the claims of the token: the receipt's fields and sub, iat, exp
Claims(receipt) ==
    [id |-> receipt.id, contentId |-> receipt.contentId, payer |-> receipt.payer,
     payee |-> receipt.payee, amount |-> receipt.amount,
     currency |-> receipt.currency, txHash |-> receipt.txHash,
     chainId |-> receipt.chainId, paidAt |-> receipt.paidAt,
     expiresAt |-> receipt.expiresAt, facilitator |-> receipt.facilitator,
     sub |-> receipt.payer, iat |-> receipt.paidAt, exp |-> receipt.expiresAt]

\* a compact JWS: the header, the claims and the tag, which names the key it
\* was computed with and the claims it was computed over
createReceiptToken(receipt, secret) ==
    [wellFormed |-> TRUE, alg |-> "HS256", claims |-> Claims(receipt),
     tag |-> [key |-> secret, claims |-> Claims(receipt)]]

\* `if (x)` on an optional string: undefined and the empty string are falsy
Truthy(x) == x.type = "string" /\ x.s # ""

\* the PEM public keys the model knows, and the private key each one matches;
\* jose.importSPKI throws on anything that is not a PEM public key
FacilitatorPublicKey == "facilitator-public-key"
OtherPublicKey == "other-public-key"
PrivateKeyOf(pem) ==
    IF pem = FacilitatorPublicKey THEN "facilitator-private-key"
    ELSE IF pem = OtherPublicKey THEN "other-private-key"
    ELSE "none"
ImportSPKIThrows(pem) == PrivateKeyOf(pem) = "none"

\* a receipt token a facilitator signs with its ES256 private key: what the
\* public-key mode of verifyReceipt is there to verify
SignES256(receipt, privateKey) ==
    [wellFormed |-> TRUE, alg |-> "ES256", claims |-> Claims(receipt),
     tag |-> [key |-> privateKey, claims |-> Claims(receipt)]]

\* jose.jwtVerify(token, key) throws on a token that is not a compact JWS, on
\* an algorithm the key is not for, on a tag that does not fit the key and the
\* claims, and on exp <= now (no clock tolerance is passed)
JwtVerifyThrows(token, alg, key, clock) ==
    \/ ~token.wellFormed
    \/ token.alg # alg
    \/ token.tag # [key |-> key, claims |-> token.claims]
    \/ token.claims.exp <= clock

\* jose.decodeJwt(token) throws only on a token it cannot parse
DecodeJwtThrows(token) == ~token.wellFormed

\* the receipt read back from the claims of a token
ReceiptOf(payload) ==
    [id |-> payload.id, contentId |-> payload.contentId, payer |-> payload.payer,
     payee |-> payload.payee, amount |-> payload.amount,
     currency |-> payload.currency, txHash |-> payload.txHash,
     chainId |-> payload.chainId, paidAt |-> payload.paidAt,
     expiresAt |-> payload.expiresAt, facilitator |-> payload.facilitator]

\* the three modes of verifyReceipt: secret, public key, decode only
verifyReceiptThrows(token, options, clock) ==
    IF Truthy(options.jwtSecret)
    THEN JwtVerifyThrows(token, "HS256", options.jwtSecret.s, clock)
    ELSE IF Truthy(options.facilitatorPublicKey)
    THEN \/ ImportSPKIThrows(options.facilitatorPublicKey.s)
         \/ JwtVerifyThrows(token, "ES256",
                            PrivateKeyOf(options.facilitatorPublicKey.s), clock)
    ELSE DecodeJwtThrows(token)

VerifyResult(valid, receipt, error) ==
    [valid |-> valid, receipt |-> receipt, error |-> error]

verifyReceipt(token, options, clock) ==
    IF verifyReceiptThrows(token, options, clock)
    THEN VerifyResult(FALSE, Undefined, "Receipt verification failed")
    ELSE LET receipt == ReceiptOf(token.claims)
         IN  IF receipt.expiresAt < clock
             THEN VerifyResult(FALSE, receipt, "Receipt has expired")
             ELSE IF /\ Truthy(options.expectedContentId)
                     /\ receipt.contentId # options.expectedContentId.s
             THEN VerifyResult(FALSE, receipt, "Receipt is for other content")
             ELSE VerifyResult(TRUE, receipt, "")

\* isReceiptValid: the quick client-side check of a decoded receipt
isReceiptValid(receipt, contentId, clock) ==
    /\ ~(receipt.expiresAt < clock)
    /\ ~(Truthy(contentId) /\ receipt.contentId # contentId.s)

----------------------------------------------------------------------------
(* Prices (core/pricing.ts).  A price is a text: a decimal with up to seven  *)
(* fractional digits, possibly behind a "$", or a text parseFloat makes      *)
(* nothing of, or a negative decimal, or the empty string                    *)

USDC_DECIMALS == 6

PriceText(kind, dollar, units, frac7) ==
    [type |-> "string", kind |-> kind, dollar |-> dollar, units |-> units,
     frac7 |-> frac7]
Price(units, frac7) == PriceText("decimal", FALSE, units, frac7)
DollarPrice(units, frac7) == PriceText("decimal", TRUE, units, frac7)
NegativePrice(units, frac7) == PriceText("negative", FALSE, units, frac7)
NotAPrice == PriceText("nan", FALSE, 0, 0)
EmptyPrice == PriceText("empty", FALSE, 0, 0)

\* `if (text)`: undefined and the empty string are falsy
PriceTruthy(p) == p.type = "string" /\ p.kind # "empty"

\* parsePrice throws on NaN and on a negative number
parsePriceThrows(price) == price.kind # "decimal"

\* Math.round(numericPrice * 10^6), as a decimal string; the leading "$" is
\* stripped before parseFloat
parsePrice(price) ==
    Str(BigIntToString((price.units * 10^(USDC_DECIMALS + 1) + price.frac7 + 5) \div 10))

\* formatPrice throws on a negative amount
formatPriceThrows(amount) == amount < 0

----------------------------------------------------------------------------
(* BudgetManager (agent/budget.ts) *)

Arr(items) == [type |-> "array", items |-> items]
Includes(list, x) == \E i \in 1..Len(list.items) : list.items[i] = x

NoPolicy ==
    [maxPerRequest |-> Undefined, maxTotal |-> Undefined, allowedDomains |-> Undefined]

SpendCheck(threw, allowed, reason) ==
    [threw |-> threw, allowed |-> allowed, reason |-> reason]

\* the domain test of checkSpend
DomainRejected(pol, domain) ==
    /\ Truthy(domain)
    /\ pol.allowedDomains.type = "array"
    /\ Len(pol.allowedDomains.items) > 0
    /\ ~Includes(pol.allowedDomains, domain.s)

\* checkSpend with the total check ahead of the per-request check
checkSpendTotalFirst(pol, spent, amount, domain) ==
    IF DomainRejected(pol, domain)
    THEN SpendCheck(FALSE, FALSE, "Domain is not in the allowed list")
    ELSE IF parsePriceThrows(amount)
    THEN SpendCheck(TRUE, FALSE, "")
    ELSE IF PriceTruthy(pol.maxTotal) /\ parsePriceThrows(pol.maxTotal)
    THEN SpendCheck(TRUE, FALSE, "")
    ELSE IF /\ PriceTruthy(pol.maxTotal)
            /\ spent + BigInt(parsePrice(amount)) > BigInt(parsePrice(pol.maxTotal))
    THEN IF formatPriceThrows(BigInt(parsePrice(pol.maxTotal)) - spent)
         THEN SpendCheck(TRUE, FALSE, "")
         ELSE SpendCheck(FALSE, FALSE, "Would exceed total budget")
    ELSE IF PriceTruthy(pol.maxPerRequest) /\ parsePriceThrows(pol.maxPerRequest)
    THEN SpendCheck(TRUE, FALSE, "")
    ELSE IF /\ PriceTruthy(pol.maxPerRequest)
            /\ BigInt(parsePrice(amount)) > BigInt(parsePrice(pol.maxPerRequest))
    THEN SpendCheck(FALSE, FALSE, "Amount exceeds per-request limit")
    ELSE SpendCheck(FALSE, TRUE, "")

checkSpend(pol, spent, amount, domain) ==
    IF DomainRejected(pol, domain)
    THEN SpendCheck(FALSE, FALSE, "Domain is not in the allowed list")
    ELSE IF parsePriceThrows(amount)
    THEN SpendCheck(TRUE, FALSE, "")
    ELSE IF PriceTruthy(pol.maxPerRequest) /\ parsePriceThrows(pol.maxPerRequest)
    THEN SpendCheck(TRUE, FALSE, "")
    ELSE IF /\ PriceTruthy(pol.maxPerRequest)
            /\ BigInt(parsePrice(amount)) > BigInt(parsePrice(pol.maxPerRequest))
    THEN SpendCheck(FALSE, FALSE, "Amount exceeds per-request limit")
    ELSE IF PriceTruthy(pol.maxTotal) /\ parsePriceThrows(pol.maxTotal)
    THEN SpendCheck(TRUE, FALSE, "")
    ELSE IF /\ PriceTruthy(pol.maxTotal)
            /\ spent + BigInt(parsePrice(amount)) > BigInt(parsePrice(pol.maxTotal))
    THEN \* the reason formats the remaining budget, which formatPrice refuses
         \* when it is negative
         IF formatPriceThrows(BigInt(parsePrice(pol.maxTotal)) - spent)
         THEN SpendCheck(TRUE, FALSE, "")
         ELSE SpendCheck(FALSE, FALSE, "Would exceed total budget")
    ELSE SpendCheck(FALSE, TRUE, "")

NoError == [name |-> "none", code |-> "none"]
PlainError == [name |-> "Error", code |-> "none"]
X402BudgetError(code) == [name |-> "X402BudgetError", code |-> code]

\* an assertSpend that never throws
assertSpendSilent(pol, spent, amount, domain) == NoError

\* assertSpend: the error it throws, NoError when it returns
assertSpend(pol, spent, amount, domain) ==
    LET check == checkSpend(pol, spent, amount, domain)
    IN  IF check.threw THEN PlainError
        ELSE IF check.allowed THEN NoError
        ELSE IF /\ Truthy(domain)
                /\ pol.allowedDomains.type = "array"
                /\ ~Includes(pol.allowedDomains, domain.s)
        THEN X402BudgetError("DOMAIN_NOT_ALLOWED")
        ELSE IF /\ PriceTruthy(pol.maxPerRequest)
                /\ BigInt(parsePrice(amount)) > BigInt(parsePrice(pol.maxPerRequest))
        THEN X402BudgetError("PER_REQUEST_LIMIT")
        ELSE X402BudgetError("BUDGET_EXCEEDED")

\* recordSpend: BigInt(amountSmallest) throws before anything is changed
recordSpendRefuses(amountSmallest) == BigIntThrows(amountSmallest)

\* recordSpend that overwrites the total instead of adding to it
recordSpendTotalOverwritten(spent, amountSmallest) == BigInt(amountSmallest)

recordSpendTotal(spent, amountSmallest) == spent + BigInt(amountSmallest)

recordSpendHistory(records, amountSmallest, contentId, domain, clock) ==
    Append(records, [contentId |-> contentId, amount |-> amountSmallest,
                     domain |-> domain, timestamp |-> clock * 1000])

\* the 80 % warning of recordSpend fires (the client always sets the callback)
budgetWarningFires(pol, spent) ==
    /\ PriceTruthy(pol.maxTotal)
    /\ ~parsePriceThrows(pol.maxTotal)
    /\ spent >= (BigInt(parsePrice(pol.maxTotal)) * 80) \div 100

\* recordSpend throws after the spend was recorded: parsePrice(maxTotal)
\* throws, or the callback's formatPrice gets a negative remaining budget
recordSpendThrowsLate(pol, spent) ==
    \/ PriceTruthy(pol.maxTotal) /\ parsePriceThrows(pol.maxTotal)
    \/ /\ budgetWarningFires(pol, spent)
       /\ formatPriceThrows(BigInt(parsePrice(pol.maxTotal)) - spent)

----------------------------------------------------------------------------
(* ReceiptCache (agent/cache.ts): a Map from contentId to an entry *)

\* Date.now(), in milliseconds
DateNow(clock) == clock * 1000

cleanupInterval == 100

CacheIds == {"api.example.com/a", "api.example.com/b"}

\* Map.get: the entry of a contentId, Undefined when there is none
MapGet(map, contentId) ==
    IF \E e \in map : e.contentId = contentId
    THEN CHOOSE e \in map : e.contentId = contentId
    ELSE Undefined

MapDelete(map, contentId) == {e \in map : e.contentId # contentId}

MapSet(map, contentId, token, expiresAt) ==
    MapDelete(map, contentId)
        \cup {[contentId |-> contentId, token |-> token, expiresAt |-> expiresAt]}

\* an entry that counts as expired from the very millisecond of its expiry
EntryExpiredFromExpiry(entry, clock) == DateNow(clock) >= entry.expiresAt

EntryExpired(entry, clock) == DateNow(clock) > entry.expiresAt

\* cleanup removes all expired entries
cleanup(map, clock) == {e \in map : ~EntryExpired(e, clock)}

\* the map as get looks it up: swept when the access count, already
\* incremented, is a multiple of cleanupInterval
SweptOnAccess(map, count, clock) ==
    IF count % cleanupInterval = 0 THEN cleanup(map, clock) ELSE map

\* ReceiptCache.get: what it returns; count is the incremented accessCount
cacheGet(map, count, contentId, clock) ==
    LET entry == MapGet(SweptOnAccess(map, count, clock), contentId)
    IN  IF entry = Undefined THEN Null
        ELSE IF EntryExpired(entry, clock) THEN Null
        ELSE Str(entry.token)

\* ReceiptCache.get: the map it leaves behind
cacheGetMap(map, count, contentId, clock) ==
    LET swept == SweptOnAccess(map, count, clock)
        entry == MapGet(swept, contentId)
    IN  IF entry # Undefined /\ EntryExpired(entry, clock)
        THEN MapDelete(swept, contentId)
        ELSE swept

\* ReceiptCache.set
cacheSet(map, contentId, token, ttl, dflt, clock) ==
    MapSet(map, contentId, token, DateNow(clock) + Coalesce(ttl, Num(dflt)).n * 1000)

\* ReceiptCache.has
cacheHas(map, contentId, clock) ==
    LET entry == MapGet(map, contentId)
    IN  entry # Undefined /\ ~EntryExpired(entry, clock)

cacheHasMap(map, contentId, clock) ==
    LET entry == MapGet(map, contentId)
    IN  IF entry # Undefined /\ EntryExpired(entry, clock)
        THEN MapDelete(map, contentId)
        ELSE map

\* ReceiptCache.size and ReceiptCache.keys, which both sweep first
\* size that counts without sweeping
cacheSizeUnswept(map, clock) == Cardinality(map)

cacheSize(map, clock) == Cardinality(cleanup(map, clock))
cacheKeys(map, clock) == {e.contentId : e \in cleanup(map, clock)}

----------------------------------------------------------------------------
(* Submitting to the facilitator (core/facilitator.ts) *)

X402PaymentError(code) == [name |-> "X402PaymentError", code |-> code]
X402NetworkError(code) == [name |-> "X402NetworkError", code |-> code]

\* what a POST to the facilitator can come to: a receipt, no connection, an
\* error status, a 2xx body without receipt, a 2xx body that is no JSON
FacilitatorAnswers == {"receipt", "unreachable", "error-status", "no-receipt", "not-json"}

\* submitToFacilitator: the error it throws for an answer, NoError for none
submitToFacilitator(answer) ==
    CASE answer = "receipt" -> NoError
      [] answer = "unreachable" -> X402NetworkError("NETWORK_ERROR")
      [] answer = "error-status" -> X402PaymentError("FACILITATOR_ERROR")
      [] answer = "no-receipt" -> X402PaymentError("FACILITATOR_ERROR")
      [] OTHER -> [name |-> "SyntaxError", code |-> "none"]

\* the retry loop gives up at once on a payment error that is no facilitator error
NonRetryable(err) == err.name = "X402PaymentError" /\ err.code # "FACILITATOR_ERROR"

\* the defaults of submitToFacilitatorWithRetry's options
DefaultMaxRetries == 2
DefaultBackoffMs == 1000
maxRetriesOf(options) == Coalesce(options.maxRetries, Num(DefaultMaxRetries)).n
backoffMsOf(options) == Coalesce(options.backoffMs, Num(DefaultBackoffMs)).n

\* a delay that grows linearly
backoffDelayLinear(backoffMs, k) == backoffMs * (k + 1)

\* backoffMs * Math.pow(2, attempt)
backoffDelay(backoffMs, k) == backoffMs * 2^k

----------------------------------------------------------------------------
(* parsePaymentRequired (core/x402.ts) and the helpers of X402AgentClient *)

\* a URL string: the text, whether `new URL` parses it, and its parts
UrlText(host, pathname) ==
    [type |-> "string", parses |-> TRUE, s |-> "https://" \o host \o pathname,
     host |-> host, pathname |-> pathname]

DEFAULT_FACILITATOR_URL == UrlText("x402.org", "/facilitator")

\* `${parsed.host}${parsed.pathname}`, the url itself when it does not parse
extractContentId(url) == IF url.parses THEN url.host \o url.pathname ELSE url.s

\* new URL(url).hostname, the url itself when it does not parse
extractDomain(url) == IF url.parses THEN url.host ELSE url.s

\* !x for a value that is a string, undefined or null
Falsy(x) ==
    \/ x.type \in {"undefined", "null"}
    \/ x.type = "string" /\ "kind" \in DOMAIN x /\ x.kind = "empty"
    \/ x.type = "string" /\ "kind" \notin DOMAIN x /\ x.s = ""

\* a || b
Or(a, b) == IF Falsy(a) THEN b ELSE a

\* the payment fields of a 402 body, or of the X-402-* response headers
PaymentFields(payTo, price, contentId, network) ==
    [payTo |-> payTo, price |-> price, currency |-> Undefined,
     contentId |-> contentId, network |-> network,
     facilitatorUrl |-> Undefined, description |-> Undefined]

\* a body of {} ; headers.get answers null for a header that is not there
EmptyBody == PaymentFields(Undefined, Undefined, Undefined, Undefined)
NoPaymentHeaders ==
    [payTo |-> Null, price |-> Null, currency |-> Null, contentId |-> Null,
     network |-> Null, facilitatorUrl |-> Null, description |-> Null]

\* a Response: its status, whether response.json() parses the body, the
\* body's fields and the X-402-* headers
FetchResponse(status, json, fields, headers) ==
    [status |-> status, json |-> json, body |-> fields, headers |-> headers]

ResponseOk(response) == response.status \in 200..299

\* a parse that accepts a 402 whatever fields it lacks
parsePaymentRequiredLenient(response) ==
    IF response.status # 402 THEN Null
    ELSE [payTo |-> Or(response.body.payTo, response.headers.payTo),
          price |-> Or(response.body.price, response.headers.price),
          currency |-> Str("USDC"),
          contentId |-> Or(response.body.contentId, response.headers.contentId),
          network |-> Or(response.body.network, response.headers.network),
          facilitatorUrl |-> DEFAULT_FACILITATOR_URL,
          description |-> Undefined]

\* the PaymentRequest of a 402 response, Null when there is none
parsePaymentRequired(response) ==
    IF response.status # 402 THEN Null
    ELSE IF ~response.json THEN Null
    ELSE LET b == response.body
             h == response.headers
             payTo == Or(b.payTo, h.payTo)
             price == Or(b.price, h.price)
             currency == Or(Or(b.currency, h.currency), Str("USDC"))
             contentId == Or(b.contentId, h.contentId)
             network == Or(b.network, h.network)
             facilitatorUrl == Or(Or(b.facilitatorUrl, h.facilitatorUrl),
                                  DEFAULT_FACILITATOR_URL)
             description == Or(Or(b.description, h.description), Undefined)
         IN  IF Falsy(payTo) \/ Falsy(price) \/ Falsy(contentId) \/ Falsy(network)
             THEN Null
             ELSE [payTo |-> payTo, price |-> price, currency |-> currency,
                   contentId |-> contentId, network |-> network,
                   facilitatorUrl |-> facilitatorUrl, description |-> description]

\* parsePaymentRequiredFromParts(headers, body): the same merge on a plain
\* object of headers and a parsed body
parsePaymentRequiredFromParts(headers, parts) ==
    LET payTo == Or(parts.payTo, headers.payTo)
        price == Or(parts.price, headers.price)
        currency == Or(Or(parts.currency, headers.currency), Str("USDC"))
        contentId == Or(parts.contentId, headers.contentId)
        network == Or(parts.network, headers.network)
        facilitatorUrl == Or(Or(parts.facilitatorUrl, headers.facilitatorUrl),
                             DEFAULT_FACILITATOR_URL)
        description == Or(parts.description, headers.description)
    IN  IF Falsy(payTo) \/ Falsy(price) \/ Falsy(contentId) \/ Falsy(network)
        THEN Null
        ELSE [payTo |-> payTo, price |-> price, currency |-> currency,
              contentId |-> contentId, network |-> network,
              facilitatorUrl |-> facilitatorUrl, description |-> description]

\* the resources the agent asks for
AgentUrls == {UrlText("api.example.com", "/a"), UrlText("api.example.com", "/b")}

----------------------------------------------------------------------------
(* Transfer executors (transfer.ts, types.ts) *)

\* `0x${'00'.repeat(12)}${nonce.slice(2).slice(0, 40)}`
MockTxHash(nonce) ==
    CASE nonce = "0xab..ab" -> "0x00..00ab..ab"
      [] nonce = "0x01..01" -> "0x00..0001..01"
      [] OTHER -> "0x00..00"

MockExecute(params) ==
    [threw |-> FALSE, success |-> TRUE, txHash |-> MockTxHash(params.authorization.nonce.s)]

\* what an implementation of TransferExecutor may answer: the mock's answer,
\* a realised transfer, a failed one, or an exception
ExecutorAnswers(params) ==
    {MockExecute(params),
     [threw |-> FALSE, success |-> TRUE, txHash |-> "0x00..0001"],
     [threw |-> FALSE, success |-> FALSE, txHash |-> "0x00..00"],
     [threw |-> TRUE, success |-> FALSE, txHash |-> "0x00..00"]}

----------------------------------------------------------------------------
(* Requests the clients of the model send *)

Values == {<<1, 0, 0, 0, 0, 0>>, <<1>>, <<3, 3, 3>>}

\* the authorizations a client signs
ClientAuthorizations ==
    {[from |-> Str(f), to |-> Str(Payee), value |-> Str(v),
      validAfter |-> Num(va), validBefore |-> Num(vb), nonce |-> Str("0xab..ab")] :
        f \in {"0xAa01", "0xaa01", "0xBb02"}, v \in Values,
        va \in {0, 2}, vb \in {2, 4}}

\* the body a client builds from an authorization it signed with `key` for
\* the network `net`
SignedBody(key, auth, net) ==
    Obj([x402Version |-> Num(1), scheme |-> Str("exact"),
         network |-> Str(Caip2(NUMERIC_CHAIN_IDS[net])),
         resource |-> Str("article-1"),
         payload |-> Obj([
            signature |-> Str(SignTypedData(key,
                              buildDomain(NUMERIC_CHAIN_IDS[net], net),
                              TypedMessage(auth))),
            authorization |-> Obj(auth)])])

Mutations ==
    {"none", "to", "value", "valueLeadingZero", "valueNumber", "valueNotNumeric",
     "validAfter", "validBefore", "validBeforeString", "nonce", "fromCase",
     "fromOther", "fromNotAddress", "fromUnprefixed", "toUnprefixed",
     "nonceUnprefixed", "nonceNotBytes32", "networkOther", "networkUnsupported",
     "networkMissing", "version", "scheme", "resource", "resourceMissing",
     "payloadMissing", "signatureMissing", "signatureUnprefixed",
     "signatureShort", "signatureRandom", "authorizationMissing",
     "fromMissing", "toMissing", "valueMissing", "validAfterMissing",
     "validBeforeMissing", "nonceNull", "bodyNull", "bodyString", "invalidJson"}

\* the body after one change made to it on the way to the facilitator
Mutate(b, m) ==
    LET a == b.f.payload.f.authorization.f
        SetAuth(x) == [b EXCEPT !.f.payload.f.authorization.f = x]
    IN  CASE m = "none" -> b
          [] m = "to" -> SetAuth([a EXCEPT !.to = Str(OtherPayee)])
          [] m = "value" -> SetAuth([a EXCEPT !.value = Str(<<2>>)])
          [] m = "valueLeadingZero" -> SetAuth([a EXCEPT !.value = Str(<<0>> \o a.value.s)])
          [] m = "valueNumber" -> SetAuth([a EXCEPT !.value = Num(ParseDigits(a.value.s))])
          [] m = "valueNotNumeric" -> SetAuth([a EXCEPT !.value = Str(<<10>>)])
          [] m = "validAfter" -> SetAuth([a EXCEPT !.validAfter = Num(a.validAfter.n + 1)])
          [] m = "validBefore" -> SetAuth([a EXCEPT !.validBefore = Num(a.validBefore.n + 1)])
          [] m = "validBeforeString" ->
                SetAuth([a EXCEPT !.validBefore = Str(BigIntToString(a.validBefore.n))])
          [] m = "nonce" -> SetAuth([a EXCEPT !.nonce = Str("0x01..01")])
          [] m = "fromCase" ->
                SetAuth([a EXCEPT !.from =
                    Str(IF a.from.s = ToLowerCase(a.from.s)
                        THEN (IF a.from.s = "0xaa01" THEN "0xAa01" ELSE "0xBb02")
                        ELSE ToLowerCase(a.from.s))])
          [] m = "fromOther" ->
                SetAuth([a EXCEPT !.from =
                    Str(IF ToLowerCase(a.from.s) = "0xaa01" THEN "0xBb02" ELSE "0xAa01")])
          [] m = "fromNotAddress" -> SetAuth([a EXCEPT !.from = Str("0xzz")])
          [] m = "fromUnprefixed" -> SetAuth([a EXCEPT !.from = Str("aa01")])
          [] m = "toUnprefixed" -> SetAuth([a EXCEPT !.to = Str("cc03")])
          [] m = "nonceUnprefixed" -> SetAuth([a EXCEPT !.nonce = Str("ab..ab")])
          [] m = "nonceNotBytes32" -> SetAuth([a EXCEPT !.nonce = Str("0xzz")])
          [] m = "networkOther" ->
                [b EXCEPT !.f.network =
                    Str(IF b.f.network.s = "eip155:8453" THEN "eip155:84532"
                        ELSE "eip155:8453")]
          [] m = "networkUnsupported" -> [b EXCEPT !.f.network = Str("eip155:1")]
          [] m = "networkMissing" -> [b EXCEPT !.f.network = Undefined]
          [] m = "version" -> [b EXCEPT !.f.x402Version = Num(2)]
          [] m = "scheme" -> [b EXCEPT !.f.scheme = Str("upto")]
          [] m = "resource" -> [b EXCEPT !.f.resource = Str("article-2")]
          [] m = "resourceMissing" -> [b EXCEPT !.f.resource = Undefined]
          [] m = "payloadMissing" -> [b EXCEPT !.f.payload = Undefined]
          [] m = "signatureMissing" -> [b EXCEPT !.f.payload.f.signature = Undefined]
          [] m = "signatureUnprefixed" ->
                [b EXCEPT !.f.payload.f.signature = Str(UnprefixedSignature)]
          [] m = "signatureShort" ->
                [b EXCEPT !.f.payload.f.signature = Str(ShortSignature)]
          [] m = "signatureRandom" ->
                [b EXCEPT !.f.payload.f.signature = Str(RandomSignature)]
          [] m = "authorizationMissing" ->
                [b EXCEPT !.f.payload.f.authorization = Undefined]
          [] m = "fromMissing" -> SetAuth([a EXCEPT !.from = Undefined])
          [] m = "toMissing" -> SetAuth([a EXCEPT !.to = Undefined])
          [] m = "valueMissing" -> SetAuth([a EXCEPT !.value = Undefined])
          [] m = "validAfterMissing" -> SetAuth([a EXCEPT !.validAfter = Undefined])
          [] m = "validBeforeMissing" -> SetAuth([a EXCEPT !.validBefore = Undefined])
          [] m = "nonceNull" -> SetAuth([a EXCEPT !.nonce = Null])
          [] m = "bodyNull" -> Null
          [] m = "bodyString" -> Str("pay")
          [] OTHER -> [type |-> "invalid-json"]

----------------------------------------------------------------------------
(* The facilitator: server.ts and handlePayment, one action per stage *)

\* config.jwtSecret and config.facilitatorUrl; loadConfig refuses an empty secret
JwtSecret == "facilitator-secret"
FacilitatorUrl == "http://localhost:4020"

\* config.feePercent values the model is run with: 0 %, 1.234 %, 2 %
FeePercents == {0, 1234, 2000}

NoToken == [wellFormed |-> FALSE, alg |-> "none"]
NoFees == [totalAmount |-> Undefined, publisherAmount |-> <<>>,
           feeAmount |-> <<>>, feePercent |-> 0]
NoAnswer == [threw |-> FALSE, success |-> FALSE, txHash |-> ""]

Response(status, error, token, txHash) ==
    [status |-> status, error |-> error, receipt |-> token, txHash |-> txHash]

Reject(status, error) ==
    /\ responses' = Append(responses, Response(status, error, NoToken, ""))
    /\ pc' = "done"

authorization == body.f.payload.f.authorization.f
signature == body.f.payload.f.signature.s

\* the same two fields of any body
AuthorizationOf(b) == b.f.payload.f.authorization.f
SignatureOf(b) == b.f.payload.f.signature.s

FacilitatorInit ==
    /\ pc = "idle"
    /\ body = Undefined
    /\ now = 0
    /\ feeCfg \in FeePercents
    /\ netInfo = NoNetwork
    /\ checks = <<>>
    /\ timeNow = 0
    /\ fees = NoFees
    /\ execCalls = 0
    /\ execOut = NoAnswer
    /\ minted = {}
    /\ responses = <<>>
    /\ sent = [key |-> "none", mutation |-> "none"]

FeeIdle ==
    /\ feeArgs = [amount |-> Undefined, feePercent |-> 0]
    /\ feeRet = NoFees

NoOptions ==
    [jwtSecret |-> Undefined, facilitatorPublicKey |-> Undefined,
     expectedContentId |-> Undefined]
NoRequest == [headers |-> Undefined, path |-> ""]
NoOutcome == [handled |-> FALSE, status |-> 0, x402 |-> Undefined,
              payment |-> Undefined, source |-> "none", at |-> 0]

ReceiptIdle ==
    /\ rcStage = "start"
    /\ rcReceipt = Undefined
    /\ rcToken = NoToken
    /\ rcOpts = NoOptions
    /\ rcAt = 0
    /\ rcRet = VerifyResult(FALSE, Undefined, "")

AdapterIdle ==
    /\ cache = {}
    /\ request = NoRequest
    /\ outcome = NoOutcome

NoBudgetCall ==
    [op |-> "none", amount |-> Undefined, domain |-> Undefined,
     check |-> SpendCheck(FALSE, FALSE, ""), error |-> NoError,
     spentBefore |-> 0, historyBefore |-> <<>>]

BudgetIdle ==
    /\ policy = NoPolicy
    /\ totalSpent = 0
    /\ history = <<>>
    /\ budgetCall = NoBudgetCall

NoCacheCall == [op |-> "none", contentId |-> "", ret |-> Undefined, at |-> 0]
NeverSet == [live |-> FALSE, token |-> "", at |-> 0, ttl |-> 0]

CacheIdle ==
    /\ receiptCache = {}
    /\ accessCount = 0
    /\ defaultTTL = DEFAULT_RECEIPT_TTL
    /\ cacheCall = NoCacheCall
    /\ written = [id \in CacheIds |-> NeverSet]

NoRetryOut == [kind |-> "none", error |-> NoError]

RetryIdle ==
    /\ retryOpts = [maxRetries |-> Undefined, backoffMs |-> Undefined]
    /\ retryPc = "idle"
    /\ attempt = 0
    /\ retryLog = <<>>
    /\ lastError = NoError
    /\ retryOut = NoRetryOut

NoPaymentRequest ==
    [payTo |-> Undefined, price |-> Undefined, currency |-> Undefined,
     contentId |-> Undefined, network |-> Undefined,
     facilitatorUrl |-> Undefined, description |-> Undefined]
NoAgentCall ==
    [op |-> "none", url |-> Undefined, contentId |-> "", receipt |-> "",
     paymentRequest |-> NoPaymentRequest, receiptToken |-> "", lookupAt |-> 0,
     paidAt |-> 0, maxPrice |-> Undefined]
NoAgentOut == [kind |-> "none", status |-> 0, error |-> NoError]
NeverPaid == [paid |-> FALSE, token |-> "", contentId |-> "", at |-> 0, call |-> 0]

PaymentEventTypes ==
    {"payment_started", "payment_success", "payment_failed", "budget_warning"}
NoListeners == [event \in PaymentEventTypes |-> <<>>]

\* no function was applied yet
NoPureCall == [fn |-> "none", input |-> Undefined, output |-> Undefined]
PureIdle == pureCall = NoPureCall

\* the requests the facilitator can be handling at one time
Requests == {1, 2}

\* the locals of a handlePayment call that has not begun
NoLocals ==
    [pc |-> "idle", body |-> Undefined, netInfo |-> NoNetwork, timeNow |-> 0,
     fees |-> NoFees, answer |-> NoAnswer, receipt |-> Undefined, mintAt |-> 0,
     id |-> "", response |-> Undefined]
NoHandling == [reqs |-> [r \in Requests |-> NoLocals], last |-> 1]
HandlingIdle == handling = NoHandling

\* the signal has not fired
NoSignal == [aborted |-> FALSE, seen |-> 0]
SignalIdle == signal = NoSignal

\* no payment sub-flow has begun
NoPayment ==
    [pc |-> "idle", retryConfig |-> Undefined, attempt |-> 0, signed |-> <<>>,
     payload |-> Undefined, posted |-> <<>>, out |-> NoRetryOut]
PaymentIdle == payment = NoPayment

\* the calls that can overlap, and a call that has not begun
Flows == {1, 2}
\* `raced` notes that a call of this flow recorded its spend after another
\* call had recorded one since its budget check
NoFlow == [pc |-> "idle", price |-> Undefined, checkedAgainst |-> 0,
           recorded |-> FALSE, raced |-> FALSE]
NoFlows == [f \in Flows |-> NoFlow]

AgentIdle ==
    /\ flows = NoFlows
    /\ agentPc = "idle"
    /\ agentCall = NoAgentCall
    /\ steps = <<>>
    /\ agentOut = NoAgentOut
    /\ calls = 0
    /\ paidFor = [u \in AgentUrls |-> NeverPaid]
    /\ listeners = NoListeners
    /\ emitted = <<>>

\* the server reads the body and parses it (server.ts)
Receive ==
    /\ pc = "idle"
    /\ UNCHANGED outsideF
    /\ \E key \in Keys, auth \in ClientAuthorizations,
          net \in DOMAIN NUMERIC_CHAIN_IDS, m \in Mutations :
          /\ body' = Mutate(SignedBody(key, auth, net), m)
          /\ sent' = [key |-> key, mutation |-> m]
    /\ IF body'.type = "invalid-json"
       THEN Reject(400, "Invalid JSON in request body")
       ELSE pc' = "validate" /\ UNCHANGED responses
    /\ UNCHANGED <<now, feeCfg, netInfo, checks, timeNow, fees, execCalls,
                   execOut, minted>>

\* 1. validate payload structure
ValidateStep ==
    /\ pc = "validate"
    /\ UNCHANGED outsideF
    /\ LET validation == validatePayload(body)
       IN  IF ~validation.valid
           THEN Reject(400, validation.error) /\ UNCHANGED checks
           ELSE /\ pc' = "resolve"
                /\ checks' = Append(checks, "shape")
                /\ UNCHANGED responses
    /\ UNCHANGED <<body, now, feeCfg, netInfo, timeNow, fees, execCalls,
                   execOut, minted, sent>>

\* 2. resolve network
ResolveStep ==
    /\ pc = "resolve"
    /\ UNCHANGED outsideF
    /\ LET networkInfo == resolveNetwork(body.f.network.s)
       IN  IF networkInfo = NoNetwork
           THEN Reject(400, "Unsupported network") /\ UNCHANGED <<checks, netInfo>>
           ELSE /\ pc' = "verify"
                /\ netInfo' = networkInfo
                /\ checks' = Append(checks, "network")
                /\ UNCHANGED responses
    /\ UNCHANGED <<body, now, feeCfg, timeNow, fees, execCalls, execOut,
                   minted, sent>>

VerifyStepNoReturn ==
    /\ pc = "verify"
    /\ UNCHANGED outsideF
    /\ LET sigResult == verifySignature(authorization, signature,
                                        netInfo.chainId, netInfo.x402Network)
       IN  /\ pc' = "time"
           /\ checks' = IF sigResult.valid THEN Append(checks, "signature") ELSE checks
           /\ UNCHANGED responses
    /\ UNCHANGED <<body, now, feeCfg, netInfo, timeNow, fees, execCalls,
                   execOut, minted, sent>>

\* 3. verify the EIP-712 signature
VerifyStep ==
    /\ pc = "verify"
    /\ UNCHANGED outsideF
    /\ LET sigResult == verifySignature(authorization, signature,
                                        netInfo.chainId, netInfo.x402Network)
       IN  IF ~sigResult.valid
           THEN Reject(400, sigResult.error) /\ UNCHANGED checks
           ELSE /\ pc' = "time"
                /\ checks' = Append(checks, "signature")
                /\ UNCHANGED responses
    /\ UNCHANGED <<body, now, feeCfg, netInfo, timeNow, fees, execCalls,
                   execOut, minted, sent>>

\* 4. validate the time window
TimeStep ==
    /\ pc = "time"
    /\ UNCHANGED outsideF
    /\ timeNow' = now
    /\ LET timeResult == validateTimeWindow(authorization, now)
       IN  IF ~timeResult.valid
           THEN Reject(400, timeResult.error) /\ UNCHANGED checks
           ELSE /\ pc' = "execute"
                /\ checks' = Append(checks, "time")
                /\ UNCHANGED responses
    /\ UNCHANGED <<body, now, feeCfg, netInfo, fees, execCalls, execOut,
                   minted, sent>>

ExecuteParams ==
    [authorization |-> authorization, signature |-> signature,
     chainId |-> netInfo.chainId]

ExecuteStepIgnoringSuccess ==
    /\ pc = "execute"
    /\ UNCHANGED outsideF
    /\ fees' = calculateFee(authorization.value, feeCfg)
    /\ execCalls' = execCalls + 1
    /\ \E transferResult \in ExecutorAnswers(ExecuteParams) :
          /\ execOut' = transferResult
          /\ IF transferResult.threw
             THEN Reject(500, "Transfer failed: <message>")
             ELSE pc' = "mint" /\ UNCHANGED responses
    /\ UNCHANGED <<body, now, feeCfg, netInfo, checks, timeNow, minted, sent>>

ExecuteStepRetrying ==
    /\ pc = "execute"
    /\ UNCHANGED outsideF
    /\ fees' = calculateFee(authorization.value, feeCfg)
    /\ execCalls' = execCalls + 1
    /\ \E transferResult \in ExecutorAnswers(ExecuteParams) :
          /\ execOut' = transferResult
          /\ IF transferResult.threw
             THEN Reject(500, "Transfer failed: <message>")
             ELSE IF ~transferResult.success
             THEN IF execCalls = 0
                  THEN pc' = "execute" /\ UNCHANGED responses
                  ELSE Reject(500, "Transfer execution failed")
             ELSE pc' = "mint" /\ UNCHANGED responses
    /\ UNCHANGED <<body, now, feeCfg, netInfo, checks, timeNow, minted, sent>>

\* 5. calculate the fee, 6. execute the transfer
ExecuteStep ==
    /\ pc = "execute"
    /\ UNCHANGED outsideF
    /\ fees' = calculateFee(authorization.value, feeCfg)
    /\ execCalls' = execCalls + 1
    /\ \E transferResult \in ExecutorAnswers(ExecuteParams) :
          /\ execOut' = transferResult
          /\ IF transferResult.threw
             THEN Reject(500, "Transfer failed: <message>")
             ELSE IF ~transferResult.success
             THEN Reject(500, "Transfer execution failed")
             ELSE pc' = "mint" /\ UNCHANGED responses
    /\ UNCHANGED <<body, now, feeCfg, netInfo, checks, timeNow, minted, sent>>

ReceiptParamsGross ==
    [contentId |-> body.f.resource.s,
     payer |-> authorization.from.s,
     payee |-> authorization.to.s,
     amount |-> BigIntToString(BigInt(fees.totalAmount)),
     currency |-> Str("USDC"),
     txHash |-> execOut.txHash,
     chainId |-> netInfo.chainId,
     facilitator |-> Str(FacilitatorUrl),
     ttlSeconds |-> Undefined]

ReceiptParams ==
    [contentId |-> body.f.resource.s,
     payer |-> authorization.from.s,
     payee |-> authorization.to.s,
     amount |-> fees.publisherAmount,
     currency |-> Str("USDC"),
     txHash |-> execOut.txHash,
     chainId |-> netInfo.chainId,
     facilitator |-> Str(FacilitatorUrl),
     ttlSeconds |-> Undefined]

\* 7. build and sign the receipt, 8. return it
MintStep ==
    /\ pc = "mint"
    /\ UNCHANGED outsideF
    /\ \E id \in ReceiptIds :
          LET receipt == buildReceipt(ReceiptParams, now, id)
              receiptToken == createReceiptToken(receipt, JwtSecret)
          IN  /\ minted' = minted \cup {receipt}
              /\ responses' = Append(responses,
                                Response(200, "", receiptToken, execOut.txHash))
    /\ pc' = "done"
    /\ UNCHANGED <<body, now, feeCfg, netInfo, checks, timeNow, fees,
                   execCalls, execOut, sent>>

\* the wall clock advances
Tick ==
    /\ now < MaxNow
    /\ now' = now + 1
    /\ UNCHANGED <<fvars, feevars, rvars, avars, bvars, cvars, tvars, gvars, pvars, hvars, xvars, yvars>>

Init ==
    /\ FacilitatorInit /\ FeeIdle /\ ReceiptIdle /\ AdapterIdle
    /\ BudgetIdle /\ CacheIdle /\ RetryIdle /\ AgentIdle /\ PureIdle /\ HandlingIdle /\ SignalIdle /\ PaymentIdle

Next ==
    \/ Receive
    \/ ValidateStep
    \/ ResolveStep
    \/ VerifyStep
    \/ TimeStep
    \/ ExecuteStep
    \/ MintStep
    \/ Tick

Spec == Init /\ [][Next]_vars

----------------------------------------------------------------------------
(* calculateFee called on its own, with amounts and fee percents of [0, 50] *)

FeeAmounts ==
    {BigIntToString(n) : n \in 0..MaxFeeAmount}
        \cup {<<1, 0, 0, 0, 0, 0>>, <<1, 2, 3, 4, 5, 6>>}

\* thousandths of a percent: 0 %, 0.004 %, 0.005 %, 0.5 %, ..., 50 %
FeePercentsMilli ==
    {0, 4, 5, 500, 1234, 1235, 1500, 2000, 3000, 33333, 49994, 50000}

FeeInit ==
    /\ FacilitatorInit
    /\ ReceiptIdle
    /\ AdapterIdle
    /\ BudgetIdle
    /\ CacheIdle
    /\ RetryIdle
    /\ AgentIdle /\ PureIdle /\ HandlingIdle /\ SignalIdle /\ PaymentIdle
    /\ feeArgs \in [amount : {Str(a) : a \in FeeAmounts}, feePercent : FeePercentsMilli]
    /\ feeRet = NoFees

CallCalculateFee ==
    /\ feeRet = NoFees
    /\ feeRet' = calculateFee(feeArgs.amount, feeArgs.feePercent)
    /\ UNCHANGED feeArgs
    /\ UNCHANGED outsideFee

FeeNext == CallCalculateFee

SpecFee == FeeInit /\ [][FeeNext]_vars

----------------------------------------------------------------------------
(* A receipt's life: built, signed, carried by a client, verified *)

ContentIds == {"/a", "/b"}
OtherContent(c) == IF c = "/a" THEN "/b" ELSE "/a"

\* ttlSeconds: left out (24 h), one second, two seconds
ReceiptTtls == {Undefined, Num(1), Num(2)}

\* secrets tokens are signed with; loadConfig refuses an empty one
Secrets == {JwtSecret, "other-secret"}

ReceiptParamsFor(contentId, ttl) ==
    [contentId |-> contentId, payer |-> Address("k1"), payee |-> Payee,
     amount |-> BigIntToString(98000), currency |-> Undefined,
     txHash |-> "0x0000000000000000000000000000000000000000000000000000000000000001",
     chainId |-> NUMERIC_CHAIN_IDS["base-sepolia"], ttlSeconds |-> ttl,
     facilitator |-> Str(FacilitatorUrl)]

\* the options a caller of verifyReceipt passes
ReceiptOptions ==
    [jwtSecret : {Undefined, Str(""), Str(JwtSecret), Str("other-secret")},
     facilitatorPublicKey : {Undefined, Str(FacilitatorPublicKey),
                             Str(OtherPublicKey), Str("not-a-pem")},
     expectedContentId : {Undefined} \cup {Str(c) : c \in ContentIds}]

ReceiptInit == Init /\ feeCfg = 2000

BuildReceipt ==
    /\ rcStage = "start"
    /\ \E c \in ContentIds, ttl \in ReceiptTtls, id \in ReceiptIds :
          rcReceipt' = buildReceipt(ReceiptParamsFor(c, ttl), now, id)
    /\ rcStage' = "built"
    /\ UNCHANGED <<now, rcToken, rcOpts, rcAt, rcRet>>
    /\ UNCHANGED outsideR

SignReceipt ==
    /\ rcStage = "built"
    /\ \E s \in Secrets : rcToken' = createReceiptToken(rcReceipt, s)
    /\ rcStage' = "signed"
    /\ UNCHANGED <<now, rcReceipt, rcOpts, rcAt, rcRet>>
    /\ UNCHANGED outsideR

SignReceiptES256 ==
    /\ rcStage = "built"
    /\ \E pem \in {FacilitatorPublicKey, OtherPublicKey} :
          rcToken' = SignES256(rcReceipt, PrivateKeyOf(pem))
    /\ rcStage' = "signed"
    /\ UNCHANGED <<now, rcReceipt, rcOpts, rcAt, rcRet>>
    /\ UNCHANGED outsideR

\* whoever carries the token rewrites a claim without re-signing
TamperToken ==
    /\ rcStage = "signed"
    /\ rcToken.wellFormed
    /\ rcToken.claims = rcToken.tag.claims
    /\ \/ rcToken' = [rcToken EXCEPT
                         !.claims.contentId = OtherContent(rcToken.claims.contentId)]
       \/ rcToken' = [rcToken EXCEPT
                         !.claims.expiresAt = rcToken.claims.expiresAt + DEFAULT_RECEIPT_TTL,
                         !.claims.exp = rcToken.claims.exp + DEFAULT_RECEIPT_TTL]
    /\ UNCHANGED <<now, rcStage, rcReceipt, rcOpts, rcAt, rcRet>>
    /\ UNCHANGED outsideR

\* or cuts it so that it is no compact JWS any more
GarbleToken ==
    /\ rcStage = "signed"
    /\ rcToken.wellFormed
    /\ rcToken' = NoToken
    /\ UNCHANGED <<now, rcStage, rcReceipt, rcOpts, rcAt, rcRet>>
    /\ UNCHANGED outsideR

VerifyReceipt ==
    /\ rcStage = "signed"
    /\ \E options \in ReceiptOptions :
          /\ rcOpts' = options
          /\ rcRet' = verifyReceipt(rcToken, options, now)
    /\ rcAt' = now
    /\ rcStage' = "verified"
    /\ UNCHANGED <<now, rcReceipt, rcToken>>
    /\ UNCHANGED outsideR

ReceiptNext ==
    \/ BuildReceipt
    \/ SignReceipt
    \/ SignReceiptES256
    \/ TamperToken
    \/ GarbleToken
    \/ VerifyReceipt
    \/ Tick

SpecReceipt == ReceiptInit /\ [][ReceiptNext]_vars

----------------------------------------------------------------------------
(* The resource server: withX402 over a ReceiptVerifier with its cache *)

\* a header value or a raw token string: a prefix and the text of a token;
\* Blank is the empty text, so Text("", Blank) is the empty string
Blank == [wellFormed |-> FALSE, alg |-> "blank"]
Text(prefix, jwt) == [type |-> "string", prefix |-> prefix, jwt |-> jwt]
TextTruthy(v) == v.type = "string" /\ ~(v.prefix = "" /\ v.jwt = Blank)

\* the token a string is read as: text behind a prefix is no compact JWS
ParseToken(text) == IF text.prefix = "" THEN text.jwt ELSE NoToken

\* extractReceiptFromHeaders on a Headers object: X-402-Receipt first, then
\* X-PAYMENT, then Authorization when it starts with "X402 "
extractReceiptFromHeaders(headers) ==
    IF TextTruthy(headers.receipt) THEN headers.receipt
    ELSE IF TextTruthy(headers.xPayment) THEN headers.xPayment
    ELSE IF /\ headers.authorization.type = "string"
            /\ headers.authorization.prefix = "X402 "
    THEN Text("", headers.authorization.jwt)
    ELSE Null

\* the defaults of the ReceiptVerifier's constructor, and what withX402 passes
DefaultCacheTTL == 60000
CacheLimit == 1000
VerifierConfig ==
    [jwtSecret |-> Str(JwtSecret), facilitatorPublicKey |-> Undefined,
     enableCache |-> TRUE, cacheTTL |-> DefaultCacheTTL]

\* the cache holds an entry for the token that is younger than cacheTTL
CacheHit(entries, token, clock) ==
    /\ VerifierConfig.enableCache
    /\ \E e \in entries :
          e.token = token /\ DateNow(clock) - e.verifiedAt < VerifierConfig.cacheTTL

CacheEntry(entries, token) == CHOOSE e \in entries : e.token = token

\* cleanCache drops the entries older than cacheTTL
cleanCache(entries, clock) ==
    {e \in entries : ~(DateNow(clock) - e.verifiedAt > VerifierConfig.cacheTTL)}

\* the call of verifyReceipt in ReceiptVerifier.verify, for a verifier
\* constructed with any config
verifyUnder(config, token, expectedContentId, clock) ==
    verifyReceipt(ParseToken(token),
                  [jwtSecret |-> config.jwtSecret,
                   facilitatorPublicKey |-> config.facilitatorPublicKey,
                   expectedContentId |-> expectedContentId],
                  clock)

\* the same call in the verifier of withX402
verifyFresh(token, expectedContentId, clock) ==
    verifyUnder(VerifierConfig, token, expectedContentId, clock)

\* ReceiptVerifier.verify: its answer
verify(entries, token, expectedContentId, clock) ==
    IF CacheHit(entries, token, clock)
    THEN LET cached == CacheEntry(entries, token)
         IN  IF /\ Truthy(expectedContentId)
                /\ cached.receipt.contentId # expectedContentId.s
             THEN VerifyResult(FALSE, Undefined, "Receipt is for other content")
             ELSE VerifyResult(TRUE, cached.receipt, "")
    ELSE verifyFresh(token, expectedContentId, clock)

\* ReceiptVerifier.verify: the cache it leaves behind
verifyCache(entries, token, expectedContentId, clock) ==
    IF CacheHit(entries, token, clock)
    THEN entries
    ELSE LET others == {e \in entries : e.token # token}
             result == verifyFresh(token, expectedContentId, clock)
             stored == others \cup {[token |-> token, receipt |-> result.receipt,
                                     verifiedAt |-> DateNow(clock)]}
         IN  IF result.valid /\ result.receipt # Undefined /\ VerifierConfig.enableCache
             THEN IF Cardinality(stored) > CacheLimit
                  THEN cleanCache(stored, clock)
                  ELSE stored
             ELSE IF VerifierConfig.enableCache THEN others ELSE entries

\* ReceiptVerifier.verifyFromHeaders: the answer and the token it was about
verifyFromHeaders(entries, headers, expectedContentId, clock) ==
    LET token == extractReceiptFromHeaders(headers)
    IN  IF ~TextTruthy(token)
        THEN [valid |-> FALSE, receipt |-> Undefined,
              error |-> "No receipt token found in headers", token |-> Undefined]
        ELSE LET result == verify(entries, token, expectedContentId, clock)
             IN  [valid |-> result.valid, receipt |-> result.receipt,
                  error |-> result.error, token |-> token]

\* the configuration the route is wrapped with; no getContentId, so the
\* content id is the path of the request
RouteConfig ==
    [price |-> "0.01", payTo |-> Payee, network |-> "base-sepolia",
     currency |-> "USDC", facilitatorUrl |-> "https://x402.org/facilitator"]

buildPaymentRequiredResponse(contentId) ==
    [status |-> 402,
     body |-> [payTo |-> RouteConfig.payTo, price |-> RouteConfig.price,
               currency |-> RouteConfig.currency, contentId |-> contentId,
               network |-> RouteConfig.network,
               facilitatorUrl |-> RouteConfig.facilitatorUrl]]

\* protectedHandler: what it does with a request, given the verifier's cache
protectedHandler(entries, req, clock) ==
    LET contentId == req.path
        result == verifyFromHeaders(entries, req.headers, Str(contentId), clock)
        source == IF ~TextTruthy(extractReceiptFromHeaders(req.headers)) THEN "none"
                  ELSE IF CacheHit(entries, result.token, clock) THEN "cache"
                  ELSE "fresh"
    IN  IF result.valid /\ result.receipt # Undefined /\ TextTruthy(result.token)
        THEN [handled |-> TRUE, status |-> 200,
              x402 |-> [receipt |-> result.receipt, contentId |-> contentId,
                        receiptToken |-> result.token],
              payment |-> Undefined, source |-> source, at |-> clock]
        ELSE [handled |-> FALSE,
              status |-> buildPaymentRequiredResponse(contentId).status,
              x402 |-> Undefined,
              payment |-> buildPaymentRequiredResponse(contentId).body,
              source |-> source, at |-> clock]

\* the tokens clients present: receipts the facilitator signed at time 0 for
\* two seconds or for a day, one signed with another secret, one whose
\* contentId was rewritten, and one that is no token at all
IssuedReceipt(contentId, ttl) ==
    buildReceipt(ReceiptParamsFor(contentId, ttl), 0, "rcpt_1")
ShortLived(contentId) ==
    createReceiptToken(IssuedReceipt(contentId, Num(2)), JwtSecret)
LongLived == createReceiptToken(IssuedReceipt("/a", Undefined), JwtSecret)
Forged == createReceiptToken(IssuedReceipt("/a", Undefined), "other-secret")
Rewritten == [LongLived EXCEPT !.claims.contentId = "/b"]
PresentedTokens ==
    {ShortLived(c) : c \in ContentIds} \cup {LongLived, Forged, Rewritten, NoToken}

Headers(receipt, xPayment, auth) ==
    [receipt |-> receipt, xPayment |-> xPayment, authorization |-> auth]

\* the header sets of the requests: none, one header, or two that compete
RequestHeaders ==
    {Headers(Undefined, Undefined, Undefined)}
        \cup {Headers(Text("", t), Undefined, Undefined) : t \in PresentedTokens}
        \cup {Headers(Text("", Blank), x, Undefined) :
                 x \in {Undefined, Text("", LongLived)}}
        \cup {Headers(Undefined, Text("", t), Undefined) :
                 t \in {ShortLived("/a"), Forged}}
        \cup {Headers(Undefined, Undefined, Text(p, t)) :
                 p \in {"X402 ", "Bearer "}, t \in {ShortLived("/b"), Blank}}
        \cup {Headers(Text("", Forged), Text("", LongLived), Undefined),
              Headers(Text("X402 ", LongLived), Undefined, Undefined),
              Headers(Undefined, Text("", NoToken), Text("X402 ", LongLived))}

AdapterInit == Init /\ feeCfg = 2000

\* a request reaches the protected route
Request ==
    /\ \E headers \in RequestHeaders, path \in ContentIds :
          LET req == [headers |-> headers, path |-> path]
              token == extractReceiptFromHeaders(headers)
          IN  /\ request' = req
              /\ outcome' = protectedHandler(cache, req, now)
              /\ cache' = IF TextTruthy(token)
                          THEN verifyCache(cache, token, Str(path), now)
                          ELSE cache
    /\ UNCHANGED now
    /\ UNCHANGED outsideA

\* nothing happens for as long as a cache entry lives
Quiet ==
    /\ now <= MaxNow
    /\ now' = now + (DefaultCacheTTL \div 1000)
    /\ UNCHANGED <<cache, request, outcome>>
    /\ UNCHANGED outsideA

AdapterNext ==
    \/ Request
    \/ Quiet
    \/ Tick

SpecAdapter == AdapterInit /\ [][AdapterNext]_vars

----------------------------------------------------------------------------
(* A BudgetManager called on its own *)

ApiDomain == "api.example.com"
OtherDomain == "evil.example.com"

\* 0.50, 1.00, 1.50, $2.00, 0.0000004, "abc", -1.00
BudgetAmounts ==
    {Price(0, 5000000), Price(1, 0), Price(1, 5000000), DollarPrice(2, 0),
     Price(0, 4), NotAPrice, NegativePrice(1, 0)}

BudgetDomains == {Undefined, Str(""), Str(ApiDomain), Str(OtherDomain)}

Policies ==
    [maxPerRequest : {Undefined, EmptyPrice, Price(1, 0)},
     maxTotal : {Undefined, Price(2, 0), NotAPrice},
     allowedDomains : {Undefined, Arr(<<>>), Arr(<<ApiDomain>>)}]

\* amounts in the smallest unit: "500000", "1500000", and "1.5"
RecordedAmounts ==
    {Str(BigIntToString(500000)), Str(BigIntToString(1500000)), Str(<<1, 10, 5>>)}

BudgetInit ==
    /\ FacilitatorInit /\ feeCfg = 2000
    /\ FeeIdle /\ ReceiptIdle /\ AdapterIdle /\ CacheIdle /\ RetryIdle
    /\ AgentIdle /\ PureIdle /\ HandlingIdle /\ SignalIdle /\ PaymentIdle
    /\ policy \in Policies
    /\ totalSpent = 0
    /\ history = <<>>
    /\ budgetCall = NoBudgetCall

BudgetCallOf(op, amount, domain, check, error) ==
    [op |-> op, amount |-> amount, domain |-> domain, check |-> check,
     error |-> error, spentBefore |-> totalSpent, historyBefore |-> history]

CheckSpend ==
    /\ \E amount \in BudgetAmounts, domain \in BudgetDomains :
          budgetCall' = BudgetCallOf("checkSpend", amount, domain,
                                     checkSpend(policy, totalSpent, amount, domain),
                                     NoError)
    /\ UNCHANGED <<policy, totalSpent, history>>
    /\ UNCHANGED outsideB

AssertSpend ==
    /\ \E amount \in BudgetAmounts, domain \in BudgetDomains :
          budgetCall' = BudgetCallOf("assertSpend", amount, domain,
                                     checkSpend(policy, totalSpent, amount, domain),
                                     assertSpend(policy, totalSpent, amount, domain))
    /\ UNCHANGED <<policy, totalSpent, history>>
    /\ UNCHANGED outsideB

RecordSpend ==
    /\ Len(history) < MaxRecords
    /\ \E amount \in RecordedAmounts :
          IF recordSpendRefuses(amount)
          THEN /\ budgetCall' = BudgetCallOf("recordSpend", amount, Str(ApiDomain),
                                             SpendCheck(FALSE, FALSE, ""),
                                             [name |-> "SyntaxError", code |-> "none"])
               /\ UNCHANGED <<totalSpent, history>>
          ELSE /\ totalSpent' = recordSpendTotal(totalSpent, amount)
               /\ history' = recordSpendHistory(history, amount.s, "article-123",
                                                ApiDomain, now)
               /\ budgetCall' = BudgetCallOf("recordSpend", amount, Str(ApiDomain),
                                             SpendCheck(FALSE, FALSE, ""),
                                             IF recordSpendThrowsLate(policy, totalSpent')
                                             THEN PlainError ELSE NoError)
    /\ UNCHANGED policy
    /\ UNCHANGED outsideB

ResetBudget ==
    /\ totalSpent' = 0
    /\ history' = <<>>
    /\ budgetCall' = BudgetCallOf("reset", Undefined, Undefined,
                                  SpendCheck(FALSE, FALSE, ""), NoError)
    /\ UNCHANGED policy
    /\ UNCHANGED outsideB

BudgetNext ==
    \/ CheckSpend
    \/ AssertSpend
    \/ RecordSpend
    \/ ResetBudget

SpecBudget == BudgetInit /\ [][BudgetNext]_vars

----------------------------------------------------------------------------
(* The 80 % warning of recordSpend: a BudgetManager with maxTotal 10.00 that *)
(* records payments of 8.00, 7.00 and 1.00, as in budget.test.ts            *)

WarnedAmounts ==
    {Str(BigIntToString(8000000)), Str(BigIntToString(7000000)),
     Str(BigIntToString(1000000))}

WarningInit ==
    /\ FacilitatorInit /\ feeCfg = 2000
    /\ FeeIdle /\ ReceiptIdle /\ AdapterIdle /\ CacheIdle /\ RetryIdle
    /\ AgentIdle /\ PureIdle /\ HandlingIdle /\ SignalIdle /\ PaymentIdle
    /\ policy = [NoPolicy EXCEPT !.maxTotal = Price(10, 0)]
    /\ totalSpent = 0
    /\ history = <<>>
    /\ budgetCall = NoBudgetCall

\* recordSpend(amount, "article-123", "api.example.com") for one of `amounts`
RecordSpendOf(amounts) ==
    /\ Len(history) < MaxRecords
    /\ \E amount \in amounts :
          IF recordSpendRefuses(amount)
          THEN /\ budgetCall' = BudgetCallOf("recordSpend", amount, Str(ApiDomain),
                                             SpendCheck(FALSE, FALSE, ""),
                                             [name |-> "SyntaxError", code |-> "none"])
               /\ UNCHANGED <<totalSpent, history>>
          ELSE /\ totalSpent' = recordSpendTotal(totalSpent, amount)
               /\ history' = recordSpendHistory(history, amount.s, "article-123",
                                                ApiDomain, now)
               /\ budgetCall' = BudgetCallOf("recordSpend", amount, Str(ApiDomain),
                                             SpendCheck(FALSE, FALSE, ""),
                                             IF recordSpendThrowsLate(policy, totalSpent')
                                             THEN PlainError ELSE NoError)
    /\ UNCHANGED policy
    /\ UNCHANGED outsideB

WarningNext ==
    \/ CheckSpend
    \/ AssertSpend
    \/ RecordSpendOf(WarnedAmounts)
    \/ ResetBudget

SpecWarning == WarningInit /\ [][WarningNext]_vars

----------------------------------------------------------------------------
(* A ReceiptCache called on its own *)

CacheTokens == {"jwt.one", "jwt.two"}

\* the ttl argument of set: left out, or 0 s
CacheTtls == {Undefined, Num(0)}

\* the cache is new, or it has answered gets for ids it never held and is
\* MaxGets accesses short of its next sweep
CacheInit ==
    /\ FacilitatorInit /\ feeCfg = 2000
    /\ FeeIdle /\ ReceiptIdle /\ AdapterIdle /\ BudgetIdle /\ RetryIdle
    /\ AgentIdle /\ PureIdle /\ HandlingIdle /\ SignalIdle /\ PaymentIdle
    /\ receiptCache = {}
    /\ accessCount \in {0, cleanupInterval - MaxGets}
    /\ defaultTTL \in {DEFAULT_RECEIPT_TTL, 1}
    /\ cacheCall = NoCacheCall
    /\ written = [id \in CacheIds |-> NeverSet]

CacheCallOf(op, contentId, ret) ==
    [op |-> op, contentId |-> contentId, ret |-> ret, at |-> now]

CacheGet ==
    /\ \/ accessCount < MaxGets
       \/ /\ accessCount >= cleanupInterval - MaxGets
          /\ accessCount < cleanupInterval
    /\ accessCount' = accessCount + 1
    /\ \E id \in CacheIds :
          /\ cacheCall' = CacheCallOf("get", id,
                                      cacheGet(receiptCache, accessCount', id, now))
          /\ receiptCache' = cacheGetMap(receiptCache, accessCount', id, now)
    /\ UNCHANGED <<now, defaultTTL, written>>
    /\ UNCHANGED outsideC

CacheSet ==
    /\ \E id \in CacheIds, token \in CacheTokens, ttl \in CacheTtls :
          /\ receiptCache' = cacheSet(receiptCache, id, token, ttl, defaultTTL, now)
          /\ cacheCall' = CacheCallOf("set", id, Undefined)
          /\ written' = [written EXCEPT ![id] =
                            [live |-> TRUE, token |-> token, at |-> now,
                             ttl |-> Coalesce(ttl, Num(defaultTTL)).n]]
    /\ UNCHANGED <<now, accessCount, defaultTTL>>
    /\ UNCHANGED outsideC

CacheHas ==
    /\ \E id \in CacheIds :
          /\ cacheCall' = CacheCallOf("has", id,
                                      [type |-> "boolean",
                                       b |-> cacheHas(receiptCache, id, now)])
          /\ receiptCache' = cacheHasMap(receiptCache, id, now)
    /\ UNCHANGED <<now, accessCount, defaultTTL, written>>
    /\ UNCHANGED outsideC

CacheDelete ==
    /\ \E id \in CacheIds :
          /\ receiptCache' = MapDelete(receiptCache, id)
          /\ cacheCall' = CacheCallOf("delete", id, Undefined)
          /\ written' = [written EXCEPT ![id] = NeverSet]
    /\ UNCHANGED <<now, accessCount, defaultTTL>>
    /\ UNCHANGED outsideC

CacheClear ==
    /\ receiptCache' = {}
    /\ accessCount' = 0
    /\ cacheCall' = CacheCallOf("clear", "", Undefined)
    /\ written' = [id \in CacheIds |-> NeverSet]
    /\ UNCHANGED <<now, defaultTTL>>
    /\ UNCHANGED outsideC

CacheSize ==
    /\ cacheCall' = CacheCallOf("size", "", Num(cacheSize(receiptCache, now)))
    /\ receiptCache' = cleanup(receiptCache, now)
    /\ UNCHANGED <<now, accessCount, defaultTTL, written>>
    /\ UNCHANGED outsideC

CacheKeys ==
    /\ cacheCall' = CacheCallOf("keys", "",
                                [type |-> "array", ids |-> cacheKeys(receiptCache, now)])
    /\ receiptCache' = cleanup(receiptCache, now)
    /\ UNCHANGED <<now, accessCount, defaultTTL, written>>
    /\ UNCHANGED outsideC

CacheNext ==
    \/ CacheGet
    \/ CacheSet
    \/ CacheHas
    \/ CacheDelete
    \/ CacheClear
    \/ CacheSize
    \/ CacheKeys
    \/ Tick

SpecCache == CacheInit /\ [][CacheNext]_vars

----------------------------------------------------------------------------
(* submitToFacilitatorWithRetry, one action per submission and per delay *)

RetryOptions ==
    [maxRetries : {Undefined} \cup {Num(r) : r \in -1..MaxRetries},
     backoffMs : {Undefined, Num(100)}]

RetryInit ==
    /\ FacilitatorInit /\ feeCfg = 2000
    /\ FeeIdle /\ ReceiptIdle /\ AdapterIdle /\ BudgetIdle /\ CacheIdle
    /\ AgentIdle /\ PureIdle /\ HandlingIdle /\ SignalIdle /\ PaymentIdle
    /\ retryOpts \in RetryOptions
    /\ retryPc = "idle"
    /\ attempt = 0
    /\ retryLog = <<>>
    /\ lastError = NoError
    /\ retryOut = NoRetryOut

\* leaving the loop: throw lastError, or the stock error when there is none
RetryExhausted(err) ==
    /\ retryPc' = "done"
    /\ retryOut' = [kind |-> "threw",
                    error |-> IF err = NoError
                              THEN X402PaymentError("FACILITATOR_ERROR")
                              ELSE err]

\* the call: attempt = 0 and the first test of the loop condition
RetryCall ==
    /\ retryPc = "idle"
    /\ IF attempt <= maxRetriesOf(retryOpts)
       THEN retryPc' = "submit" /\ UNCHANGED retryOut
       ELSE RetryExhausted(lastError)
    /\ UNCHANGED <<retryOpts, attempt, retryLog, lastError>>
    /\ UNCHANGED outsideT

\* one submission and the catch block behind it, up to the delay
RetrySubmit ==
    /\ retryPc = "submit"
    /\ \E answer \in FacilitatorAnswers :
          LET err == submitToFacilitator(answer)
          IN  /\ retryLog' = Append(retryLog, [event |-> "submit", answer |-> answer,
                                               error |-> err, delay |-> 0])
              /\ IF err = NoError
                 THEN /\ retryPc' = "done"
                      /\ retryOut' = [kind |-> "returned", error |-> NoError]
                      /\ UNCHANGED <<attempt, lastError>>
                 ELSE /\ lastError' = err
                      /\ IF NonRetryable(err)
                         THEN /\ retryPc' = "done"
                              /\ retryOut' = [kind |-> "threw", error |-> err]
                              /\ UNCHANGED attempt
                         ELSE IF attempt < maxRetriesOf(retryOpts)
                         THEN /\ retryPc' = "wait"
                              /\ UNCHANGED <<attempt, retryOut>>
                         ELSE /\ attempt' = attempt + 1
                              /\ RetryExhausted(err)
    /\ UNCHANGED retryOpts
    /\ UNCHANGED outsideT

\* the delay runs out; attempt++ and the loop condition, which holds
RetryWait ==
    /\ retryPc = "wait"
    /\ retryLog' = Append(retryLog, [event |-> "wait", answer |-> "", error |-> NoError,
                                     delay |-> backoffDelay(backoffMsOf(retryOpts), attempt)])
    /\ attempt' = attempt + 1
    /\ retryPc' = "submit"
    /\ UNCHANGED <<retryOpts, lastError, retryOut>>
    /\ UNCHANGED outsideT

RetryNext ==
    \/ RetryCall
    \/ RetrySubmit
    \/ RetryWait

SpecRetry == RetryInit /\ [][RetryNext]_vars

----------------------------------------------------------------------------
(* X402AgentClient: one action per step of fetch, pay and executePayment; *)
(* the calls of one client follow one another                             *)

\* the prices a server asks: 0.50 and 5.00
AgentPrices == {Price(0, 5000000), Price(5, 0)}

PayTo == Str("0xpayee")
Network == Str("base-sepolia")

\* a response whose body is no JSON and that has no X-402-* headers
Plain(status) == FetchResponse(status, FALSE, EmptyBody, NoPaymentHeaders)
NoResponse == Plain(0)

\* the X-402-* headers of a 402 that announces the resource's host and path
\* as its contentId, and 0.50 as its price
PaymentHeaders(url) ==
    [NoPaymentHeaders EXCEPT !.payTo = PayTo, !.price = Price(0, 5000000),
                             !.contentId = Str(extractContentId(url)),
                             !.network = Network]

\* the 402 answers of a server: the fields in the body, with the resource's
\* path as contentId as the route adapter of this repository announces it;
\* the fields in the headers of an empty body; the headers and a body that is
\* no JSON; a body without price
PaymentRequired(url) ==
    {FetchResponse(402, TRUE, PaymentFields(PayTo, price, Str(url.pathname), Network),
                   NoPaymentHeaders) : price \in AgentPrices}
    \cup {FetchResponse(402, TRUE, EmptyBody, PaymentHeaders(url)),
          FetchResponse(402, FALSE, EmptyBody, PaymentHeaders(url)),
          FetchResponse(402, TRUE,
                        PaymentFields(PayTo, Undefined, Str(url.pathname), Network),
                        NoPaymentHeaders)}

ServerResponses(url) == {Plain(200), Plain(500)} \cup PaymentRequired(url)

\* what a server answers to a request that carries a receipt
ReceiptResponses == {Plain(200), Plain(402), Plain(500)}

\* at most 1.00 a request; that and 0.75 in total; payments through the
\* facilitators of api.example.com only (the default facilitator is x402.org)
AgentPolicies ==
    {[NoPolicy EXCEPT !.maxPerRequest = Price(1, 0)],
     [NoPolicy EXCEPT !.maxPerRequest = Price(1, 0), !.maxTotal = Price(0, 7500000)],
     [NoPolicy EXCEPT !.allowedDomains = Arr(<<"api.example.com">>)]}

\* the receipt the facilitator issues for the payment of the n-th call
IssuedToken(n) == "jwt." \o ToString(n)

\* a client with a budget policy and a receiptTTL of one second
AgentInit ==
    /\ FacilitatorInit /\ feeCfg = 2000
    /\ FeeIdle /\ ReceiptIdle /\ AdapterIdle
    /\ policy \in AgentPolicies
    /\ totalSpent = 0
    /\ history = <<>>
    /\ budgetCall = NoBudgetCall
    /\ receiptCache = {}
    /\ accessCount = 0
    /\ defaultTTL = Coalesce(Num(1), Num(DEFAULT_RECEIPT_TTL)).n
    /\ cacheCall = NoCacheCall
    /\ written = [id \in CacheIds |-> NeverSet]
    /\ RetryIdle
    /\ AgentIdle /\ PureIdle /\ HandlingIdle /\ SignalIdle /\ PaymentIdle

\* what no step of the client changes
outsideG == <<now, fvars, feevars, rvars, avars, tvars, pvars, hvars, xvars, yvars, policy, budgetCall,
              defaultTTL, cacheCall, written, listeners, flows>>

\* a loop over the handlers that the first throw ends
emitRunsUntilThrow(handlers) ==
    LET throwers == {i \in 1..Len(handlers) : handlers[i] = "throws"}
        last == IF throwers = {} THEN Len(handlers)
                ELSE CHOOSE i \in throwers : \A j \in throwers : i <= j
    IN  [i \in 1..last |-> i]

\* emit: the handlers of the event it invokes, in the order they were
\* registered; what a handler throws is caught inside the loop
emitRuns(handlers) == [i \in 1..Len(handlers) |-> i]

\* the log after emit(event, payload), made when `after` steps were done
Emit(log, event, error, after) ==
    Append(log, [event |-> event, error |-> error, after |-> after,
                 ran |-> emitRuns(listeners[event])])

Step(event, token, response, error) ==
    [event |-> event, token |-> token, response |-> response, error |-> error]

\* the call returns a response (status 0: pay returns the receipt)
Returned(status) ==
    /\ agentPc' = "idle"
    /\ agentOut' = [kind |-> "returned", status |-> status, error |-> NoError]

Threw(err) ==
    /\ agentPc' = "idle"
    /\ agentOut' = [kind |-> "threw", status |-> 0, error |-> err]

\* a catch block that rethrows without emitting
paymentFailedDropped(log, err, after) == log

\* the catch block of executePayment: payment_failed is emitted with the error
paymentFailed(log, err, after) == Emit(log, "payment_failed", err, after)

\* what the handlers registered for an event do, in the order of registration
HandlerLists == {<<"returns">>, <<"throws", "returns">>}

\* a client with the policy {maxPerRequest: 1.00, maxTotal: 0.60} and the
\* same handlers registered for every event
EventsInit ==
    /\ FacilitatorInit /\ feeCfg = 2000
    /\ FeeIdle /\ ReceiptIdle /\ AdapterIdle /\ RetryIdle
    /\ policy = [NoPolicy EXCEPT !.maxPerRequest = Price(1, 0),
                                 !.maxTotal = Price(0, 6000000)]
    /\ totalSpent = 0
    /\ history = <<>>
    /\ budgetCall = NoBudgetCall
    /\ receiptCache = {}
    /\ accessCount = 0
    /\ defaultTTL = Coalesce(Num(1), Num(DEFAULT_RECEIPT_TTL)).n
    /\ cacheCall = NoCacheCall
    /\ written = [id \in CacheIds |-> NeverSet]
    /\ agentPc = "idle"
    /\ agentCall = NoAgentCall
    /\ steps = <<>>
    /\ agentOut = NoAgentOut
    /\ calls = 0
    /\ paidFor = [u \in AgentUrls |-> NeverPaid]
    /\ \E handlers \in HandlerLists :
          listeners = [event \in PaymentEventTypes |-> handlers]
    /\ emitted = <<>>
    /\ flows = NoFlows
    /\ PureIdle /\ HandlingIdle /\ SignalIdle /\ PaymentIdle

\* fetch(url) up to its first await: the cache lookup
AgentFetch ==
    /\ agentPc = "idle"
    /\ calls < MaxCalls
    /\ calls' = calls + 1
    /\ accessCount' = accessCount + 1
    /\ \E url \in AgentUrls :
          LET contentId == extractContentId(url)
              cachedToken == cacheGet(receiptCache, accessCount', contentId, now)
              receipt == IF Truthy(cachedToken) THEN cachedToken.s ELSE ""
          IN  /\ receiptCache' = cacheGetMap(receiptCache, accessCount', contentId, now)
              /\ agentCall' = [NoAgentCall EXCEPT !.op = "fetch", !.url = url,
                                                  !.contentId = contentId,
                                                  !.receipt = receipt,
                                                  !.lookupAt = now]
              /\ steps' = <<Step("lookup", receipt, NoResponse, NoError)>>
              /\ agentPc' = IF Truthy(cachedToken) THEN "cached-request"
                            ELSE "initial-request"
    /\ agentOut' = NoAgentOut
    /\ emitted' = <<>>
    /\ UNCHANGED <<totalSpent, history, paidFor>>
    /\ UNCHANGED outsideG

\* the request that carries the cached receipt, and what fetch makes of the answer
AgentCachedRequest ==
    /\ agentPc = "cached-request"
    /\ \E response \in ReceiptResponses :
          /\ steps' = Append(steps, Step("request", agentCall.receipt, response, NoError))
          /\ IF ResponseOk(response)
             THEN Returned(response.status) /\ UNCHANGED receiptCache
             ELSE IF response.status = 402
             THEN /\ receiptCache' = MapDelete(receiptCache, agentCall.contentId)
                  /\ agentPc' = "initial-request"
                  /\ UNCHANGED agentOut
             ELSE Returned(response.status) /\ UNCHANGED receiptCache
    /\ UNCHANGED <<agentCall, calls, paidFor, accessCount, totalSpent, history>>
    /\ UNCHANGED emitted
    /\ UNCHANGED outsideG

\* the initial request, with the headers fetch holds at that point, and the
\* parse of a 402 answer
AgentInitialRequest ==
    /\ agentPc = "initial-request"
    /\ \E response \in ServerResponses(agentCall.url) :
          LET paymentRequest == parsePaymentRequired(response)
          IN  /\ steps' = Append(steps, Step("request", agentCall.receipt, response,
                                              NoError))
              /\ IF response.status # 402
                 THEN Returned(response.status) /\ UNCHANGED agentCall
                 ELSE IF paymentRequest = Null
                 THEN /\ Threw(X402PaymentError("INVALID_402_RESPONSE"))
                      /\ UNCHANGED agentCall
                 ELSE /\ agentCall' = [agentCall EXCEPT !.paymentRequest = paymentRequest]
                      /\ agentPc' = "assert"
                      /\ UNCHANGED agentOut
    /\ UNCHANGED <<calls, paidFor, receiptCache, accessCount, totalSpent, history>>
    /\ UNCHANGED emitted
    /\ UNCHANGED outsideG

\* pay(url) up to its first await
AgentPay ==
    /\ agentPc = "idle"
    /\ calls < MaxCalls
    /\ calls' = calls + 1
    /\ \E url \in AgentUrls :
          agentCall' = [NoAgentCall EXCEPT !.op = "pay", !.url = url]
    /\ steps' = <<>>
    /\ agentPc' = "pay-request"
    /\ agentOut' = NoAgentOut
    /\ emitted' = <<>>
    /\ UNCHANGED <<paidFor, receiptCache, accessCount, totalSpent, history>>
    /\ UNCHANGED outsideG

\* the request of pay, and the parse of its answer
AgentPayRequest ==
    /\ agentPc = "pay-request"
    /\ \E response \in ServerResponses(agentCall.url) :
          LET paymentRequest == parsePaymentRequired(response)
          IN  /\ steps' = Append(steps, Step("request", "", response, NoError))
              /\ IF response.status # 402
                 THEN /\ Threw(X402PaymentError("PAYMENT_FAILED"))
                      /\ UNCHANGED agentCall
                 ELSE IF paymentRequest = Null
                 THEN /\ Threw(X402PaymentError("INVALID_402_RESPONSE"))
                      /\ UNCHANGED agentCall
                 ELSE /\ agentCall' = [agentCall EXCEPT !.paymentRequest = paymentRequest]
                      /\ agentPc' = "assert"
                      /\ UNCHANGED agentOut
    /\ UNCHANGED <<calls, paidFor, receiptCache, accessCount, totalSpent, history>>
    /\ UNCHANGED emitted
    /\ UNCHANGED outsideG

\* a budget check against a budget of which nothing is spent
AgentAssertSpendFresh ==
    /\ agentPc = "assert"
    /\ LET price == agentCall.paymentRequest.price
           domain == extractDomain(agentCall.paymentRequest.facilitatorUrl)
           err == assertSpend(policy, 0, price, Str(domain))
           started == Emit(emitted, "payment_started", NoError, Len(steps))
       IN  /\ steps' = Append(steps, Step("assert", "", NoResponse, err))
           /\ IF err = NoError
              THEN /\ agentPc' = "sign"
                   /\ emitted' = started
                   /\ UNCHANGED agentOut
              ELSE /\ emitted' = paymentFailed(started, err, Len(steps'))
                   /\ Threw(err)
    /\ UNCHANGED <<agentCall, calls, paidFor, receiptCache, accessCount, totalSpent,
                   history>>
    /\ UNCHANGED outsideG

\* executePayment: payment_started is emitted and the budget checked; what
\* the check throws is caught, emitted as payment_failed and rethrown
AgentAssertSpend ==
    /\ agentPc = "assert"
    /\ LET price == agentCall.paymentRequest.price
           domain == extractDomain(agentCall.paymentRequest.facilitatorUrl)
           err == assertSpend(policy, totalSpent, price, Str(domain))
           started == Emit(emitted, "payment_started", NoError, Len(steps))
       IN  /\ steps' = Append(steps, Step("assert", "", NoResponse, err))
           /\ IF err = NoError
              THEN /\ agentPc' = "sign"
                   /\ emitted' = started
                   /\ UNCHANGED agentOut
              ELSE /\ emitted' = paymentFailed(started, err, Len(steps'))
                   /\ Threw(err)
    /\ UNCHANGED <<agentCall, calls, paidFor, receiptCache, accessCount, totalSpent,
                   history>>
    /\ UNCHANGED outsideG

\* executePayment: the typed data is built and the wallet signs it, or
\* rejects
AgentSign ==
    /\ agentPc = "sign"
    /\ \E err \in {NoError, PlainError} :
          /\ steps' = Append(steps, Step("sign", "", NoResponse, err))
          /\ IF err = NoError
             THEN /\ agentPc' = "submit"
                  /\ UNCHANGED <<agentOut, emitted>>
             ELSE /\ emitted' = paymentFailed(emitted, err, Len(steps'))
                  /\ Threw(err)
    /\ UNCHANGED <<agentCall, calls, paidFor, receiptCache, accessCount,
                   totalSpent, history>>
    /\ UNCHANGED outsideG

\* what submitToFacilitatorWithRetry comes to for the client: NoError for a
\* receipt, or the error of its last submission, which it throws
SubmissionResults == {submitToFacilitator(answer) : answer \in FacilitatorAnswers}

\* an executePayment that records the spend before it knows the outcome of
\* the submission
AgentSubmitRecordingFirst ==
    /\ agentPc = "submit"
    /\ \E result \in SubmissionResults :
          LET paymentRequest == agentCall.paymentRequest
              submitted == Step("submitted", "", NoResponse, result)
              token == IssuedToken(calls)
              amountSmallest == parsePrice(paymentRequest.price)
              domain == extractDomain(paymentRequest.facilitatorUrl)
          IN  IF result # NoError
              THEN /\ steps' = Append(steps, submitted)
                   /\ emitted' = paymentFailed(emitted, result, Len(steps'))
                   /\ Threw(result)
                   /\ totalSpent' = recordSpendTotal(totalSpent, amountSmallest)
                   /\ history' = recordSpendHistory(history, amountSmallest.s,
                                                    paymentRequest.contentId.s,
                                                    domain, now)
                   /\ UNCHANGED <<agentCall, receiptCache, paidFor>>
              ELSE /\ receiptCache' = cacheSet(receiptCache,
                                               paymentRequest.contentId.s, token,
                                               Undefined, defaultTTL, now)
                   /\ totalSpent' = recordSpendTotal(totalSpent, amountSmallest)
                   /\ history' = recordSpendHistory(history, amountSmallest.s,
                                                    paymentRequest.contentId.s,
                                                    domain, now)
                   /\ steps' = steps \o <<submitted,
                                          Step("store", token, NoResponse, NoError),
                                          Step("record", "", NoResponse, NoError)>>
                   /\ agentCall' = [agentCall EXCEPT !.receiptToken = token,
                                                     !.paidAt = now]
                   /\ paidFor' = [paidFor EXCEPT ![agentCall.url] = NeverPaid]
                   /\ IF recordSpendThrowsLate(policy, totalSpent')
                      THEN /\ emitted' = paymentFailed(emitted, PlainError, Len(steps'))
                           /\ Threw(PlainError)
                      ELSE /\ emitted' = Emit(IF budgetWarningFires(policy, totalSpent')
                                              THEN Emit(emitted, "budget_warning",
                                                        NoError, Len(steps'))
                                              ELSE emitted,
                                              "payment_success", NoError, Len(steps'))
                           /\ IF agentCall.op = "pay"
                              THEN Returned(0)
                              ELSE agentPc' = "retry-request" /\ UNCHANGED agentOut
    /\ UNCHANGED <<calls, accessCount>>
    /\ UNCHANGED outsideG

\* executePayment from the submission on: the payload is built and
\* submitToFacilitatorWithRetry called; its error is rethrown, or the receipt
\* is cached under the contentId of the payment request and the spend
\* recorded; fetch goes on to its retry, pay returns
AgentSubmit ==
    /\ agentPc = "submit"
    /\ \E result \in SubmissionResults :
          LET paymentRequest == agentCall.paymentRequest
              submitted == Step("submitted", "", NoResponse, result)
              token == IssuedToken(calls)
              amountSmallest == parsePrice(paymentRequest.price)
              domain == extractDomain(paymentRequest.facilitatorUrl)
          IN  IF result # NoError
              THEN /\ steps' = Append(steps, submitted)
                   /\ emitted' = paymentFailed(emitted, result, Len(steps'))
                   /\ Threw(result)
                   /\ UNCHANGED <<agentCall, receiptCache, totalSpent, history,
                                  paidFor>>
              ELSE /\ receiptCache' = cacheSet(receiptCache,
                                               paymentRequest.contentId.s, token,
                                               Undefined, defaultTTL, now)
                   /\ totalSpent' = recordSpendTotal(totalSpent, amountSmallest)
                   /\ history' = recordSpendHistory(history, amountSmallest.s,
                                                    paymentRequest.contentId.s,
                                                    domain, now)
                   /\ steps' = steps \o <<submitted,
                                          Step("store", token, NoResponse, NoError),
                                          Step("record", "", NoResponse, NoError)>>
                   /\ agentCall' = [agentCall EXCEPT !.receiptToken = token,
                                                     !.paidAt = now]
                   /\ paidFor' = [paidFor EXCEPT ![agentCall.url] = NeverPaid]
                   /\ IF recordSpendThrowsLate(policy, totalSpent')
                      THEN /\ emitted' = paymentFailed(emitted, PlainError, Len(steps'))
                           /\ Threw(PlainError)
                      ELSE /\ emitted' = Emit(IF budgetWarningFires(policy, totalSpent')
                                              THEN Emit(emitted, "budget_warning",
                                                        NoError, Len(steps'))
                                              ELSE emitted,
                                              "payment_success", NoError, Len(steps'))
                           /\ IF agentCall.op = "pay"
                              THEN Returned(0)
                              ELSE agentPc' = "retry-request" /\ UNCHANGED agentOut
    /\ UNCHANGED <<calls, accessCount>>
    /\ UNCHANGED outsideG

\* a payAndRetry that takes a 402 to the re-issued request as a new demand
\* and pays again
AgentRetryRequestPayingAgain ==
    /\ agentPc = "retry-request"
    /\ \E response \in ReceiptResponses :
          /\ steps' = Append(steps, Step("request", agentCall.receiptToken, response,
                                         NoError))
          /\ IF response.status = 402
             THEN agentPc' = "assert" /\ UNCHANGED agentOut
             ELSE Returned(response.status)
    /\ paidFor' = [paidFor EXCEPT ![agentCall.url] =
                      [paid |-> TRUE, token |-> agentCall.receiptToken,
                       contentId |-> agentCall.paymentRequest.contentId.s,
                       at |-> agentCall.paidAt, call |-> calls]]
    /\ UNCHANGED <<agentCall, calls, receiptCache, accessCount, totalSpent, history>>
    /\ UNCHANGED emitted
    /\ UNCHANGED outsideG

\* payAndRetry: the request again, with the new receipt, whose answer fetch returns
AgentRetryRequest ==
    /\ agentPc = "retry-request"
    /\ \E response \in ReceiptResponses :
          /\ steps' = Append(steps, Step("request", agentCall.receiptToken, response,
                                         NoError))
          /\ Returned(response.status)
    /\ paidFor' = [paidFor EXCEPT ![agentCall.url] =
                      [paid |-> TRUE, token |-> agentCall.receiptToken,
                       contentId |-> agentCall.paymentRequest.contentId.s,
                       at |-> agentCall.paidAt, call |-> calls]]
    /\ UNCHANGED <<agentCall, calls, receiptCache, accessCount, totalSpent, history>>
    /\ UNCHANGED emitted
    /\ UNCHANGED outsideG

\* reset(): budget.reset() and receiptCache.clear()
AgentReset ==
    /\ agentPc = "idle"
    /\ totalSpent' = 0
    /\ history' = <<>>
    /\ receiptCache' = {}
    /\ accessCount' = 0
    /\ paidFor' = [u \in AgentUrls |-> NeverPaid]
    /\ UNCHANGED <<agentPc, agentCall, steps, agentOut, calls>>
    /\ UNCHANGED emitted
    /\ UNCHANGED outsideG

AgentNext ==
    \/ AgentFetch
    \/ AgentCachedRequest
    \/ AgentInitialRequest
    \/ AgentPay
    \/ AgentPayRequest
    \/ AgentAssertSpend
    \/ AgentSign
    \/ AgentSubmit
    \/ AgentRetryRequest
    \/ AgentReset
    \/ Tick

SpecAgent == AgentInit /\ [][AgentNext]_vars

----------------------------------------------------------------------------
(* A client whose policy allows payments to x402.org only, asking for the    *)
(* resources of api.example.com                                              *)

DomainsInit ==
    /\ FacilitatorInit /\ feeCfg = 2000
    /\ FeeIdle /\ ReceiptIdle /\ AdapterIdle
    /\ policy = [NoPolicy EXCEPT !.allowedDomains = Arr(<<"x402.org">>)]
    /\ totalSpent = 0
    /\ history = <<>>
    /\ budgetCall = NoBudgetCall
    /\ receiptCache = {}
    /\ accessCount = 0
    /\ defaultTTL = Coalesce(Num(1), Num(DEFAULT_RECEIPT_TTL)).n
    /\ cacheCall = NoCacheCall
    /\ written = [id \in CacheIds |-> NeverSet]
    /\ RetryIdle
    /\ AgentIdle /\ PureIdle /\ HandlingIdle /\ SignalIdle /\ PaymentIdle

SpecDomains == DomainsInit /\ [][AgentNext]_vars

\* the same client with handlers registered
SpecEvents == EventsInit /\ [][AgentNext]_vars

----------------------------------------------------------------------------
(* x402Fetch (agent/fetch.ts): the stateless wrapper *)

\* the maxPrice option of a call: absent, 1.00, 0.50, not a number
MaxPrices == {Undefined, Price(1, 0), Price(0, 5000000), NotAPrice}

\* a guard that lets every price pass
maxPriceGuardOpen(maxPrice, price) == NoError

\* the max price guard: what it throws, NoError when the price passes or no
\* maxPrice is given
maxPriceGuard(maxPrice, price) ==
    IF ~PriceTruthy(maxPrice) THEN NoError
    ELSE IF parsePriceThrows(price) \/ parsePriceThrows(maxPrice) THEN PlainError
    ELSE IF BigInt(parsePrice(price)) > BigInt(parsePrice(maxPrice))
    THEN X402BudgetError("PER_REQUEST_LIMIT")
    ELSE NoError

FetchInit ==
    /\ FacilitatorInit /\ feeCfg = 2000
    /\ FeeIdle /\ ReceiptIdle /\ AdapterIdle /\ BudgetIdle /\ CacheIdle /\ RetryIdle
    /\ AgentIdle /\ PureIdle /\ HandlingIdle /\ SignalIdle /\ PaymentIdle

\* x402Fetch(url, options): the initial request; a response other than 402 is
\* returned as it is, a 402 without payment parameters is an error
X402FetchRequest ==
    /\ agentPc = "idle"
    /\ calls < MaxCalls
    /\ calls' = calls + 1
    /\ \E url \in AgentUrls, maxPrice \in MaxPrices :
       \E response \in ServerResponses(url) :
          LET paymentRequest == parsePaymentRequired(response)
              call == [NoAgentCall EXCEPT !.op = "x402Fetch", !.url = url,
                                          !.maxPrice = maxPrice]
          IN  /\ steps' = <<Step("request", "", response, NoError)>>
              /\ IF response.status # 402
                 THEN Returned(response.status) /\ agentCall' = call
                 ELSE IF paymentRequest = Null
                 THEN /\ Threw(X402PaymentError("INVALID_402_RESPONSE"))
                      /\ agentCall' = call
                 ELSE /\ agentCall' = [call EXCEPT !.paymentRequest = paymentRequest]
                      /\ agentPc' = "guard"
                      /\ agentOut' = NoAgentOut
    /\ UNCHANGED <<paidFor, receiptCache, accessCount, totalSpent, history, emitted>>
    /\ UNCHANGED outsideG

\* the max price guard
X402FetchGuard ==
    /\ agentPc = "guard"
    /\ LET err == maxPriceGuard(agentCall.maxPrice, agentCall.paymentRequest.price)
       IN  /\ steps' = Append(steps, Step("guard", "", NoResponse, err))
           /\ IF err = NoError
              THEN agentPc' = "sign" /\ UNCHANGED agentOut
              ELSE Threw(err)
    /\ UNCHANGED <<agentCall, calls, paidFor, receiptCache, accessCount, totalSpent,
                   history, emitted>>
    /\ UNCHANGED outsideG

\* the temporary wallet signs the authorization
X402FetchSign ==
    /\ agentPc = "sign"
    /\ steps' = Append(steps, Step("sign", "", NoResponse, NoError))
    /\ agentPc' = "submit"
    /\ UNCHANGED <<agentCall, agentOut, calls, paidFor, receiptCache, accessCount,
                   totalSpent, history, emitted>>
    /\ UNCHANGED outsideG

\* submitToFacilitator, called once: what it throws ends the call
X402FetchSubmit ==
    /\ agentPc = "submit"
    /\ \E answer \in FacilitatorAnswers :
          LET err == submitToFacilitator(answer)
          IN  /\ steps' = Append(steps, Step("submitted", "", NoResponse, err))
              /\ IF err # NoError
                 THEN Threw(err) /\ UNCHANGED agentCall
                 ELSE /\ agentCall' = [agentCall EXCEPT
                                          !.receiptToken = IssuedToken(calls)]
                      /\ agentPc' = "retry-request"
                      /\ UNCHANGED agentOut
    /\ UNCHANGED <<calls, paidFor, receiptCache, accessCount, totalSpent, history,
                   emitted>>
    /\ UNCHANGED outsideG

\* the original request again with the receipt in X-402-Receipt and
\* X-PAYMENT; its response is returned whatever it is
X402FetchRetry ==
    /\ agentPc = "retry-request"
    /\ \E response \in ReceiptResponses :
          /\ steps' = Append(steps, Step("request", agentCall.receiptToken, response,
                                         NoError))
          /\ Returned(response.status)
    /\ UNCHANGED <<agentCall, calls, paidFor, receiptCache, accessCount, totalSpent,
                   history, emitted>>
    /\ UNCHANGED outsideG

FetchNext ==
    \/ X402FetchRequest
    \/ X402FetchGuard
    \/ X402FetchSign
    \/ X402FetchSubmit
    \/ X402FetchRetry

SpecFetch == FetchInit /\ [][FetchNext]_vars

----------------------------------------------------------------------------
(* extractReceiptFromHeaders (core/receipt.ts) on both kinds of argument *)

PureInit ==
    /\ FacilitatorInit /\ feeCfg = 2000
    /\ FeeIdle /\ ReceiptIdle /\ AdapterIdle /\ BudgetIdle /\ CacheIdle /\ RetryIdle
    /\ AgentIdle /\ PureIdle /\ HandlingIdle /\ SignalIdle /\ PaymentIdle

\* the three headers, each in three spellings
ReceiptHeaderNames == {"X-402-Receipt", "X-PAYMENT", "Authorization"}
Spellings(name) ==
    CASE name = "X-402-Receipt" -> {"X-402-Receipt", "x-402-receipt", "X-402-RECEIPT"}
      [] name = "X-PAYMENT" -> {"X-PAYMENT", "x-payment", "X-Payment"}
      [] name = "Authorization" -> {"Authorization", "authorization", "AUTHORIZATION"}

\* String.prototype.toLowerCase on these names
toLowerCase(name) ==
    CASE name \in Spellings("X-402-Receipt") -> "x-402-receipt"
      [] name \in Spellings("X-PAYMENT") -> "x-payment"
      [] name \in Spellings("Authorization") -> "authorization"

\* a token text that is no JWT, like 'my-token'
Opaque(name) == [wellFormed |-> FALSE, alg |-> name]

\* what a header can hold: nothing, the empty string, a token, a token
\* behind "X402 ", a token behind "Bearer "
HeaderValues(name) ==
    {Undefined, Text("", Blank), Text("", Opaque(name)), Text("X402 ", Opaque(name)),
     Text("Bearer ", Opaque(name))}

\* the arguments: a Headers object or a plain object, with at most one
\* entry for each of the three headers, under one of its spellings
HeaderArguments ==
    {[kind |-> kind, entries |-> {e \in {r, x, a} : e.value # Undefined}] :
        kind \in {"Headers", "object"},
        r \in {[name |-> n, value |-> v] :
                  n \in Spellings("X-402-Receipt"), v \in HeaderValues("receipt")},
        x \in {[name |-> n, value |-> v] :
                  n \in Spellings("X-PAYMENT"), v \in HeaderValues("payment")},
        a \in {[name |-> n, value |-> v] :
                  n \in Spellings("Authorization"), v \in HeaderValues("auth")}}

\* Headers.get(name): names are matched without regard to case
HeadersGet(entries, name) ==
    IF \E e \in entries : toLowerCase(e.name) = toLowerCase(name)
    THEN (CHOOSE e \in entries : toLowerCase(e.name) = toLowerCase(name)).value
    ELSE Null

\* obj[key]: the property of exactly that name
PropertyGet(entries, key) ==
    IF \E e \in entries : e.name = key
    THEN (CHOOSE e \in entries : e.name = key).value
    ELSE Undefined

\* a || b on header values
TextOr(a, b) == IF TextTruthy(a) THEN a ELSE b

\* the branch for a plain object: each header under its canonical and its
\* lower-case name
extractReceiptFromObject(entries) ==
    LET receipt == TextOr(PropertyGet(entries, "X-402-Receipt"),
                          PropertyGet(entries, "x-402-receipt"))
        xPayment == TextOr(PropertyGet(entries, "X-PAYMENT"),
                           PropertyGet(entries, "x-payment"))
        auth == TextOr(PropertyGet(entries, "Authorization"),
                       PropertyGet(entries, "authorization"))
    IN  IF TextTruthy(receipt) THEN receipt
        ELSE IF TextTruthy(xPayment) THEN xPayment
        ELSE IF auth.type = "string" /\ auth.prefix = "X402 "
        THEN Text("", auth.jwt)
        ELSE Null

\* extractReceiptFromHeaders(headers) for either kind of argument
extractReceipt(headers) ==
    IF headers.kind = "Headers"
    THEN extractReceiptFromHeaders(
             [receipt |-> HeadersGet(headers.entries, "X-402-Receipt"),
              xPayment |-> HeadersGet(headers.entries, "X-PAYMENT"),
              authorization |-> HeadersGet(headers.entries, "Authorization")])
    ELSE extractReceiptFromObject(headers.entries)

ExtractReceipt ==
    /\ PureIdle
    /\ \E headers \in HeaderArguments :
          pureCall' = [fn |-> "extractReceiptFromHeaders", input |-> headers,
                       output |-> extractReceipt(headers)]
    /\ UNCHANGED <<now, fvars, feevars, rvars, avars, bvars, cvars, tvars, gvars, hvars, xvars, yvars>>

SpecExtract == PureInit /\ [][ExtractReceipt]_vars

----------------------------------------------------------------------------
(* parsePaymentRequired and parsePaymentRequiredFromParts on their own *)

\* the four required fields as a body carries them, each one there or not
BodyFields ==
    {PaymentFields(payTo, price, contentId, network) :
        payTo \in {Undefined, Str("0xBody")},
        price \in {Undefined, Price(0, 5000000)},
        contentId \in {Undefined, Str("body-content")},
        network \in {Undefined, Str("base-mainnet")}}

\* the four required fields as headers carry them; `absent` is what a
\* lookup answers for a header that is not there
HeaderFields(absent) ==
    {[payTo |-> payTo, price |-> price, currency |-> absent, contentId |-> contentId,
      network |-> network, facilitatorUrl |-> absent, description |-> absent] :
        payTo \in {absent, Str("0xHeader")},
        price \in {absent, Price(5, 0)},
        contentId \in {absent, Str("header-content")},
        network \in {absent, Str("base-sepolia")}}

\* parsePaymentRequired(response) for a response whose body is JSON with
\* these fields, or no JSON at all
ParseResponse ==
    /\ PureIdle
    /\ \E status \in {200, 402}, json \in BOOLEAN, headers \in HeaderFields(Null) :
       \E parts \in (IF json THEN BodyFields ELSE {EmptyBody}) :
          LET response == FetchResponse(status, json, parts, headers)
          IN  pureCall' = [fn |-> "parsePaymentRequired", input |-> response,
                           output |-> parsePaymentRequired(response)]
    /\ UNCHANGED <<now, fvars, feevars, rvars, avars, bvars, cvars, tvars, gvars, hvars, xvars, yvars>>

\* parsePaymentRequiredFromParts(headers, body)
ParseParts ==
    /\ PureIdle
    /\ \E headers \in HeaderFields(Undefined), parts \in BodyFields :
          pureCall' = [fn |-> "parsePaymentRequiredFromParts",
                       input |-> FetchResponse(402, TRUE, parts, headers),
                       output |-> parsePaymentRequiredFromParts(headers, parts)]
    /\ UNCHANGED <<now, fvars, feevars, rvars, avars, bvars, cvars, tvars, gvars, hvars, xvars, yvars>>

ParseNext == ParseResponse \/ ParseParts

SpecParse == PureInit /\ [][ParseNext]_vars

----------------------------------------------------------------------------
(* ReceiptVerifier.verify on a new verifier, for the configs it can be      *)
(* constructed with                                                        *)

\* jwtSecret is typed string and may be empty, or undefined when it comes
\* from an environment variable that is not set; facilitatorPublicKey is
\* optional
VerifierConfigs ==
    {[jwtSecret |-> secret, facilitatorPublicKey |-> key, enableCache |-> TRUE,
      cacheTTL |-> DefaultCacheTTL] :
        secret \in {Str(JwtSecret), Str(""), Undefined},
        key \in {Undefined, Str(FacilitatorPublicKey)}}

\* the tokens presented, and two that a facilitator key and another key signed
VerifiedTokens ==
    PresentedTokens
        \cup {SignES256(IssuedReceipt("/a", Undefined), PrivateKeyOf(FacilitatorPublicKey)),
              SignES256(IssuedReceipt("/a", Undefined), PrivateKeyOf(OtherPublicKey))}

\* verify(token, expectedContentId) on a verifier whose cache is empty
VerifyUnder ==
    /\ PureIdle
    /\ \E config \in VerifierConfigs, t \in VerifiedTokens,
          expectedContentId \in {Undefined, Str("/a")}, clock \in 0..MaxNow :
          pureCall' = [fn |-> "verify",
                       input |-> [config |-> config, token |-> t,
                                  expectedContentId |-> expectedContentId,
                                  clock |-> clock],
                       output |-> verifyUnder(config, Text("", t), expectedContentId,
                                              clock)]
    /\ UNCHANGED <<now, fvars, feevars, rvars, avars, bvars, cvars, tvars, gvars, hvars, xvars, yvars>>

SpecVerifier == PureInit /\ [][VerifyUnder]_vars

----------------------------------------------------------------------------
(* Facilitator and resource server together: the client takes the receipt   *)
(* of the facilitator's answer to the route, whose content id is the        *)
(* resource it paid for                                                     *)

\* the price of RouteConfig, "0.01", as parsePrice reads it
RoutePrice == Price(0, 100000)

EndToEndInit == Init /\ feeCfg = 2000

\* the request with the receipt of the facilitator's 200 answer reaches the
\* protected route
PresentReceipt ==
    /\ pc = "done"
    /\ request = NoRequest
    /\ responses[Len(responses)].status = 200
    /\ LET token == Text("", responses[Len(responses)].receipt)
           req == [headers |-> Headers(token, Undefined, Undefined),
                   path |-> body.f.resource.s]
       IN  /\ request' = req
           /\ outcome' = protectedHandler(cache, req, now)
           /\ cache' = verifyCache(cache, token, Str(req.path), now)
    /\ UNCHANGED now
    /\ UNCHANGED outsideA

EndToEndNext ==
    \/ Receive
    \/ ValidateStep
    \/ ResolveStep
    \/ VerifyStep
    \/ TimeStep
    \/ ExecuteStep
    \/ MintStep
    \/ PresentReceipt
    \/ Tick

SpecEndToEnd == EndToEndInit /\ [][EndToEndNext]_vars

----------------------------------------------------------------------------
(* Calls that overlap on one X402AgentClient.  A call runs from one await   *)
(* to the next without interruption; between two awaits of one call the     *)
(* other call may run                                                       *)

\* a client with the policy {maxPerRequest: 1.00, maxTotal: 0.75}
ConcurrentInit ==
    /\ FacilitatorInit /\ feeCfg = 2000
    /\ FeeIdle /\ ReceiptIdle /\ AdapterIdle /\ RetryIdle
    /\ policy = [NoPolicy EXCEPT !.maxPerRequest = Price(1, 0),
                                 !.maxTotal = Price(0, 7500000)]
    /\ totalSpent = 0
    /\ history = <<>>
    /\ budgetCall = NoBudgetCall
    /\ receiptCache = {}
    /\ accessCount = 0
    /\ defaultTTL = Coalesce(Num(1), Num(DEFAULT_RECEIPT_TTL)).n
    /\ cacheCall = NoCacheCall
    /\ written = [id \in CacheIds |-> NeverSet]
    /\ AgentIdle /\ PureIdle /\ HandlingIdle /\ SignalIdle /\ PaymentIdle

\* what no step of a sub-flow changes
outsideFlows == <<now, fvars, feevars, rvars, avars, tvars, pvars, hvars, xvars, yvars, policy, budgetCall,
                  defaultTTL, cacheCall, written, listeners, agentPc, agentCall,
                  steps, agentOut, paidFor, emitted, accessCount>>

\* the content a call asks for
FlowContent(f) == IF f = 1 THEN "api.example.com/a" ELSE "api.example.com/b"

\* fetch is called and its request sent; the answer will be a 402 with a price
FlowStart(f) ==
    /\ flows[f].pc \in {"idle", "done", "failed"}
    /\ calls < MaxCalls
    /\ calls' = calls + 1
    /\ \E price \in AgentPrices :
          flows' = [flows EXCEPT ![f] = [NoFlow EXCEPT !.pc = "assert", !.price = price,
                                                       !.raced = flows[f].raced]]
    /\ UNCHANGED <<totalSpent, history, receiptCache>>
    /\ UNCHANGED outsideFlows

\* the 402 arrives: executePayment runs up to `await signTypedData`, its
\* budget check against the totalSpent of this moment
FlowAssertSpend(f) ==
    /\ flows[f].pc = "assert"
    /\ LET domain == extractDomain(DEFAULT_FACILITATOR_URL)
           err == assertSpend(policy, totalSpent, flows[f].price, Str(domain))
       IN  flows' = [flows EXCEPT ![f].pc = IF err = NoError THEN "signing" ELSE "failed",
                                  ![f].checkedAgainst = totalSpent]
    /\ UNCHANGED <<calls, totalSpent, history, receiptCache>>
    /\ UNCHANGED outsideFlows

\* the signature is there: the payload is built and the submission awaited
FlowSubmit(f) ==
    /\ flows[f].pc = "signing"
    /\ flows' = [flows EXCEPT ![f].pc = "submitting"]
    /\ UNCHANGED <<calls, totalSpent, history, receiptCache>>
    /\ UNCHANGED outsideFlows

\* the submission is over: its error is rethrown, or the receipt is cached
\* and the spend recorded
FlowSettle(f) ==
    /\ flows[f].pc = "submitting"
    /\ \E result \in SubmissionResults :
          LET amountSmallest == parsePrice(flows[f].price)
              domain == extractDomain(DEFAULT_FACILITATOR_URL)
          IN  IF result # NoError
              THEN /\ flows' = [flows EXCEPT ![f].pc = "failed"]
                   /\ UNCHANGED <<totalSpent, history, receiptCache>>
              ELSE /\ receiptCache' = cacheSet(receiptCache, FlowContent(f),
                                               IssuedToken(f), Undefined, defaultTTL,
                                               now)
                   /\ totalSpent' = recordSpendTotal(totalSpent, amountSmallest)
                   /\ history' = recordSpendHistory(history, amountSmallest.s,
                                                    FlowContent(f), domain, now)
                   /\ flows' = [flows EXCEPT
                         ![f].pc = IF recordSpendThrowsLate(policy, totalSpent')
                                   THEN "failed" ELSE "done",
                         ![f].recorded = TRUE,
                         ![f].raced = \/ flows[f].raced
                                      \/ totalSpent # flows[f].checkedAgainst]
    /\ UNCHANGED calls
    /\ UNCHANGED outsideFlows

ConcurrentNext ==
    \/ \E f \in Flows :
          \/ FlowStart(f)
          \/ FlowAssertSpend(f)
          \/ FlowSubmit(f)
          \/ FlowSettle(f)
    \/ Tick

SpecConcurrent == ConcurrentInit /\ [][ConcurrentNext]_vars

----------------------------------------------------------------------------
(* The retry loop under the AbortSignal the caller of fetch may pass in its  *)
(* options: the controller may fire at any moment of the loop               *)

\* controller.abort(): the signal fires while the loop awaits a submission
\* or a delay; what the loop had done by then, the submission in flight
\* included
Abort ==
    /\ ~signal.aborted
    /\ retryPc \in {"submit", "wait"}
    /\ signal' = [aborted |-> TRUE,
                  seen |-> IF retryPc = "submit" THEN Len(retryLog) + 1
                           ELSE Len(retryLog)]
    /\ UNCHANGED <<now, fvars, feevars, rvars, avars, bvars, cvars, tvars, gvars,
                   pvars, hvars, yvars>>

CancelNext ==
    \/ RetryCall
    \/ RetrySubmit
    \/ RetryWait
    \/ Abort

SpecCancel == RetryInit /\ [][CancelNext]_vars

----------------------------------------------------------------------------
(* One payment sub-flow from the signature to the end of the retry loop,     *)
(* with the payload of every submission (client.ts, eip712.ts,               *)
(* facilitator.ts)                                                           *)

\* generateNonce draws 32 random bytes
Nonces == {"0xab..ab", "0x01..01"}

\* the authorization of buildTransferAuthorization with its defaults
buildTransferAuthorization(from, to, price, nonce, clock) ==
    [from |-> Str(from), to |-> to, value |-> parsePrice(price),
     validAfter |-> Num(0), validBefore |-> Num(clock + 3600), nonce |-> Str(nonce)]

buildFacilitatorPayload(sig, auth, network, contentId) ==
    Obj([x402Version |-> Num(1), scheme |-> Str("exact"),
         network |-> Str(Caip2(NUMERIC_CHAIN_IDS[network])),
         resource |-> Str(contentId),
         payload |-> Obj([signature |-> Str(sig), authorization |-> Obj(auth)])])

\* the retryConfig of the constructor: maxRetries ?? 2, backoffMs ?? 1000
RetryConfigs ==
    {[maxRetries |-> Coalesce(r, Num(DefaultMaxRetries)),
      backoffMs |-> Coalesce(Undefined, Num(DefaultBackoffMs))] :
        r \in {Undefined} \cup {Num(k) : k \in 0..MaxRetries}}

\* the payload of a submission, were it built and signed anew with another
\* nonce for every attempt
SubmittedAfresh(flow) ==
    LET old == AuthorizationOf(flow.payload)
        auth == [old EXCEPT !.nonce = Str(CHOOSE n \in Nonces : n # old.nonce.s)]
    IN  IF flow.posted = <<>> THEN flow.payload
        ELSE buildFacilitatorPayload(
                SignTypedData("k1", buildDomain(NUMERIC_CHAIN_IDS["base-sepolia"],
                                                "base-sepolia"),
                              TypedMessage(auth)),
                auth, "base-sepolia", flow.payload.f.resource.s)

\* the payload submitToFacilitatorWithRetry passes to submitToFacilitator
Submitted(flow) == flow.payload

\* executePayment: build the authorization, sign it, build the payload
PaymentSign ==
    /\ payment.pc = "idle"
    /\ \E price \in AgentPrices, nonce \in Nonces, config \in RetryConfigs :
          LET auth == buildTransferAuthorization("0xAa01", PayTo, price, nonce, now)
              sig == SignTypedData("k1",
                                   buildDomain(NUMERIC_CHAIN_IDS["base-sepolia"],
                                               "base-sepolia"),
                                   TypedMessage(auth))
          IN  payment' = [payment EXCEPT
                             !.pc = "submit",
                             !.retryConfig = config,
                             !.signed = Append(payment.signed, auth),
                             !.payload = buildFacilitatorPayload(sig, auth,
                                            "base-sepolia", "/a")]
    /\ UNCHANGED <<now, fvars, feevars, rvars, avars, bvars, cvars, tvars, gvars,
                   pvars, hvars, xvars>>

\* one submission of the loop and the catch block behind it
PaymentSubmit ==
    /\ payment.pc = "submit"
    /\ \E answer \in FacilitatorAnswers :
          LET err == submitToFacilitator(answer)
              posted == Append(payment.posted, Submitted(payment))
          IN  IF err = NoError
              THEN payment' = [payment EXCEPT
                                  !.posted = posted, !.pc = "done",
                                  !.out = [kind |-> "returned", error |-> NoError]]
              ELSE IF NonRetryable(err) \/ payment.attempt >= maxRetriesOf(payment.retryConfig)
              THEN payment' = [payment EXCEPT
                                  !.posted = posted, !.pc = "done",
                                  !.out = [kind |-> "threw", error |-> err]]
              ELSE payment' = [payment EXCEPT !.posted = posted, !.pc = "wait"]
    /\ UNCHANGED <<now, fvars, feevars, rvars, avars, bvars, cvars, tvars, gvars,
                   pvars, hvars, xvars>>

\* the delay runs out; attempt++
PaymentWait ==
    /\ payment.pc = "wait"
    /\ payment' = [payment EXCEPT !.pc = "submit", !.attempt = payment.attempt + 1]
    /\ UNCHANGED <<now, fvars, feevars, rvars, avars, bvars, cvars, tvars, gvars,
                   pvars, hvars, xvars>>

PaymentNext ==
    \/ PaymentSign
    \/ PaymentSubmit
    \/ PaymentWait
    \/ Tick

SpecPayment == Init /\ [][PaymentNext]_vars

----------------------------------------------------------------------------
(* Requests the facilitator handles at the same time (handler.ts).  A call   *)
(* of handlePayment runs from one await to the next without interruption;   *)
(* between two awaits of one call another call may run                      *)

\* the params of buildReceipt for the body `b`
ReceiptParamsOf(b, networkInfo, fee, transferResult) ==
    [contentId |-> b.f.resource.s,
     payer |-> AuthorizationOf(b).from.s,
     payee |-> AuthorizationOf(b).to.s,
     amount |-> fee.publisherAmount,
     currency |-> Str("USDC"),
     txHash |-> transferResult.txHash,
     chainId |-> networkInfo.chainId,
     facilitator |-> Str(FacilitatorUrl),
     ttlSeconds |-> Undefined]

\* handlePayment as one function of its inputs: the body, the fee
\* configuration, the clock validateTimeWindow reads, the executor's answer,
\* and the clock and the id buildReceipt draws
handlePayment(b, feePercent, timeClock, transferResult, mintClock, id) ==
    LET validation == validatePayload(b)
        networkInfo == resolveNetwork(b.f.network.s)
        sigResult == verifySignature(AuthorizationOf(b), SignatureOf(b),
                                     networkInfo.chainId, networkInfo.x402Network)
        timeResult == validateTimeWindow(AuthorizationOf(b), timeClock)
        fee == calculateFee(AuthorizationOf(b).value, feePercent)
        receipt == buildReceipt(ReceiptParamsOf(b, networkInfo, fee, transferResult),
                                mintClock, id)
    IN  IF ~validation.valid
        THEN Response(400, validation.error, NoToken, "")
        ELSE IF networkInfo = NoNetwork
        THEN Response(400, "Unsupported network", NoToken, "")
        ELSE IF ~sigResult.valid
        THEN Response(400, sigResult.error, NoToken, "")
        ELSE IF ~timeResult.valid
        THEN Response(400, timeResult.error, NoToken, "")
        ELSE IF transferResult.threw
        THEN Response(500, "Transfer failed: <message>", NoToken, "")
        ELSE IF ~transferResult.success
        THEN Response(500, "Transfer execution failed", NoToken, "")
        ELSE Response(200, "", createReceiptToken(receipt, JwtSecret),
                      transferResult.txHash)

\* the authorizations the clients of this facilitator sign: one with a short
\* window, one for nothing, one with another nonce
HandledAuthorizations ==
    {[from |-> Str("0xAa01"), to |-> Str(Payee), value |-> Str(<<1, 0, 0, 0, 0, 0>>),
      validAfter |-> Num(0), validBefore |-> Num(2), nonce |-> Str("0xab..ab")],
     [from |-> Str("0xAa01"), to |-> Str(Payee), value |-> Str(<<0>>),
      validAfter |-> Num(0), validBefore |-> Num(4), nonce |-> Str("0xab..ab")],
     [from |-> Str("0xBb02"), to |-> Str(Payee), value |-> Str(<<3, 3, 3>>),
      validAfter |-> Num(2), validBefore |-> Num(4), nonce |-> Str("0x01..01")]}

HandledBodies ==
    {SignedBody("k1", auth, "base-sepolia") : auth \in HandledAuthorizations}
    \cup {Mutate(SignedBody("k1", auth, "base-sepolia"), "to") :
             auth \in HandledAuthorizations}

HandlingInit ==
    /\ Init
    /\ feeCfg = 2000

outsideH ==
    <<fvars, feevars, rvars, avars, bvars, cvars, tvars, gvars, pvars, xvars, yvars>>

\* as if the locals of handlePayment were module-level: every call reads what
\* the call that wrote last left
LocalsOfLast(state, r) == state.reqs[state.last]

\* the locals of the call handling request r
Locals(state, r) == state.reqs[r]

Handled(r, locals) ==
    handling' = [reqs |-> [handling.reqs EXCEPT ![r] = locals], last |-> r]

Answered(locals, response) ==
    [locals EXCEPT !.pc = "done", !.response = response]

\* the request arrives: 1. validate payload structure, 2. resolve network,
\* 3. verifySignature is called
Arrive(r) ==
    /\ handling.reqs[r].pc = "idle"
    /\ UNCHANGED <<now, outsideH>>
    /\ \E b \in HandledBodies :
          LET locals == [NoLocals EXCEPT !.body = b]
              validation == validatePayload(b)
              networkInfo == resolveNetwork(b.f.network.s)
          IN  IF ~validation.valid
              THEN Handled(r, Answered(locals,
                                Response(400, validation.error, NoToken, "")))
              ELSE IF networkInfo = NoNetwork
              THEN Handled(r, Answered(locals,
                                Response(400, "Unsupported network", NoToken, "")))
              ELSE Handled(r, [locals EXCEPT !.pc = "verify",
                                             !.netInfo = networkInfo])

\* verifySignature answered: 4. validate the time window, 5. calculate the
\* fee, 6. executor.execute is called
Verified(r) ==
    /\ handling.reqs[r].pc = "verify"
    /\ UNCHANGED <<now, outsideH>>
    /\ LET locals == Locals(handling, r)
           own == [handling.reqs[r] EXCEPT !.timeNow = now]
           sigResult == verifySignature(AuthorizationOf(locals.body),
                                        SignatureOf(locals.body),
                                        locals.netInfo.chainId,
                                        locals.netInfo.x402Network)
           timeResult == validateTimeWindow(AuthorizationOf(locals.body), now)
       IN  IF ~sigResult.valid
           THEN Handled(r, Answered(own, Response(400, sigResult.error, NoToken, "")))
           ELSE IF ~timeResult.valid
           THEN Handled(r, Answered(own, Response(400, timeResult.error, NoToken, "")))
           ELSE Handled(r, [own EXCEPT
                              !.pc = "execute",
                              !.fees = calculateFee(
                                          AuthorizationOf(locals.body).value, feeCfg)])

\* the executor answered: 7. build the receipt, createReceiptToken is called
Executed(r) ==
    /\ handling.reqs[r].pc = "execute"
    /\ UNCHANGED <<now, outsideH>>
    /\ LET locals == Locals(handling, r)
       IN  \E transferResult \in
                 ExecutorAnswers([authorization |-> AuthorizationOf(locals.body),
                                  signature |-> SignatureOf(locals.body),
                                  chainId |-> locals.netInfo.chainId]),
              id \in ReceiptIds :
              LET own == [handling.reqs[r] EXCEPT !.answer = transferResult]
              IN  IF transferResult.threw
                  THEN Handled(r, Answered(own,
                                    Response(500, "Transfer failed: <message>",
                                             NoToken, "")))
                  ELSE IF ~transferResult.success
                  THEN Handled(r, Answered(own,
                                    Response(500, "Transfer execution failed",
                                             NoToken, "")))
                  ELSE Handled(r, [own EXCEPT
                                     !.pc = "mint",
                                     !.mintAt = now,
                                     !.id = id,
                                     !.receipt = buildReceipt(
                                         ReceiptParamsOf(locals.body, locals.netInfo,
                                                         locals.fees, transferResult),
                                         now, id)])

\* the token is signed: 8. return the receipt
Minted(r) ==
    /\ handling.reqs[r].pc = "mint"
    /\ UNCHANGED <<now, outsideH>>
    /\ LET locals == Locals(handling, r)
       IN  Handled(r, Answered(handling.reqs[r],
                        Response(200, "",
                                 createReceiptToken(locals.receipt, JwtSecret),
                                 locals.answer.txHash)))

HandlingNext ==
    \/ \E r \in Requests :
          \/ Arrive(r)
          \/ Verified(r)
          \/ Executed(r)
          \/ Minted(r)
    \/ Tick

SpecHandling == HandlingInit /\ [][HandlingNext]_vars

----------------------------------------------------------------------------
(* Properties of the facilitator *)

Range(seq) == {seq[i] : i \in 1..Len(seq)}

AllChecks == <<"shape", "network", "signature", "time">>

\* the signature was made by the holder of `from` over exactly the submitted
\* fields, for the stablecoin of the network the request names
Genuine ==
    /\ signature.kind = "ecdsa"
    /\ signature.digest.message = TypedMessage(authorization)
    /\ signature.digest.domain.chainId = netInfo.chainId
    /\ signature.digest.domain.verifyingContract = USDC_ADDRESSES[netInfo.x402Network]
    /\ signature.digest.domain.name = "USD Coin"
    /\ signature.digest.domain.version = "2"
    /\ ToLowerCase(Address(signature.key)) = ToLowerCase(authorization.from.s)

InWindow ==
    /\ ToNumber(authorization.validAfter) <= timeNow
    /\ timeNow < ToNumber(authorization.validBefore)

\* C1: the executor is invoked only for a request that passed shape
\* validation, network resolution, signature verification and the time-window
\* check, in this order; a request that failed one of them ends without the
\* executor ever having been called.
C1_ExecutorOnlyAfterAllChecks ==
    /\ execCalls > 0 =>
          /\ checks = AllChecks
          /\ body.type = "object"
          /\ body.f.network.s \in {"eip155:8453", "eip155:84532"}
          /\ Genuine
          /\ InWindow
    /\ checks # AllChecks => execCalls = 0 /\ execOut = NoAnswer
    /\ \E n \in 0..Len(AllChecks) : checks = SubSeq(AllChecks, 1, n)

C1_Witness == execCalls = 1 /\ checks = AllChecks /\ pc = "mint"

\* the changes of a body that change what was signed
Tampering ==
    {"to", "value", "validAfter", "validBefore", "nonce", "fromOther",
     "networkOther"}

Rejected400 ==
    /\ Len(responses) = 1
    /\ responses[1].status = 400
    /\ responses[1].error # ""
    /\ responses[1].receipt = NoToken
    /\ execCalls = 0
    /\ minted = {}

\* C2: the signature of a request is accepted if and only if it recovers,
\* over the six submitted authorization fields under the USDC domain of the
\* resolved network, to authorization.from ignoring case; a request with a
\* signed field or the network changed after signing ends with status 400,
\* no transfer and no receipt.
C2_SignatureAcceptedIffGenuine ==
    /\ (Len(checks) >= 2 /\ pc # "verify") => (("signature" \in Range(checks)) <=> Genuine)
    /\ (pc = "done" /\ sent.mutation \in Tampering) => Rejected400

\* a signer whose address is submitted in lower case is accepted
C2_Witness ==
    /\ "signature" \in Range(checks)
    /\ authorization.from.s = "0xaa01"
    /\ Address(signature.key) = "0xAa01"

\* C3: status 200 is returned only if the executor returned success = true,
\* and the body then carries a receipt signed with the facilitator's secret
\* and the executor's txHash; when the executor returns success = false or
\* throws, the status is 500 and no receipt is minted.
C3_SuccessOnlyIfExecuted ==
    /\ \A i \in 1..Len(responses) :
          responses[i].status = 200 =>
              /\ execCalls = 1
              /\ execOut.success /\ ~execOut.threw
              /\ responses[i].txHash = execOut.txHash
              /\ responses[i].receipt.wellFormed
              /\ responses[i].receipt.tag.key = JwtSecret
              /\ responses[i].receipt.tag.claims = responses[i].receipt.claims
              /\ responses[i].receipt.claims.txHash = execOut.txHash
    /\ (execCalls > 0 /\ (execOut.threw \/ ~execOut.success)) =>
          /\ pc = "done"
          /\ Len(responses) = 1
          /\ responses[1].status = 500
          /\ responses[1].receipt = NoToken
          /\ minted = {}

C3_Witness ==
    /\ Len(responses) = 1
    /\ responses[1].status = 200
    /\ responses[1].txHash = "0x00..0001"

C5_ReceiptFields ==
    [][(pc = "mint" /\ pc' = "done") =>
          /\ Cardinality(minted') = 1
          /\ Len(responses') = 1
          /\ responses'[1].status = 200
          /\ \A r \in minted' :
                /\ responses'[1].receipt.claims = Claims(r)
                /\ r.payer = authorization.from.s
                /\ r.payee = authorization.to.s
                /\ r.contentId = body.f.resource.s
                /\ body.f.network.s = "eip155:8453" => r.chainId = 8453
                /\ body.f.network.s = "eip155:84532" => r.chainId = 84532
                /\ r.txHash = execOut.txHash
                /\ IsDigits(r.amount)
                /\ LET value == BigInt(authorization.value)
                       bps == (feeCfg + 5) \div 10
                       fee == value - ParseDigits(r.amount)
                   IN  /\ 0 <= fee /\ fee <= value
                       /\ 10000 * fee <= value * bps
                       /\ value * bps < 10000 * (fee + 1)
                /\ (BigInt(authorization.value) = 100000 /\ feeCfg = 2000)
                      => r.amount = <<9, 8, 0, 0, 0>>
                /\ r.paidAt = now
                /\ r.expiresAt = r.paidAt + 86400
                /\ r.expiresAt > r.paidAt
                /\ r.currency = "USDC"
                /\ r.facilitator = FacilitatorUrl
      ]_vars

C5_Witness ==
    /\ pc = "done"
    /\ feeCfg = 2000
    /\ \E r \in minted :
          /\ r.amount = <<9, 8, 0, 0, 0>>
          /\ r.paidAt = 2
          /\ r.expiresAt = 86402
          /\ r.payer = "0xaa01"
          /\ r.contentId = "article-2"

\* the time-window check has run for this request
TimeChecked == Len(checks) = 4 \/ (pc = "done" /\ Len(checks) = 3)

\* C6: the time-window check accepts an authorization exactly when
\* validAfter <= now < validBefore; it rejects with 400 "expired" when
\* validBefore <= now, validBefore = now included, and with 400 "not yet
\* valid" when validAfter > now (and the authorization is not expired).
C6_TimeWindow ==
    TimeChecked =>
        LET validAfter == ToNumber(authorization.validAfter)
            validBefore == ToNumber(authorization.validBefore)
        IN  /\ (checks = AllChecks) <=> (validAfter <= timeNow /\ timeNow < validBefore)
            /\ validBefore <= timeNow =>
                  Rejected400 /\ responses[1].error = "Authorization expired"
            /\ (validAfter > timeNow /\ validBefore > timeNow) =>
                  Rejected400 /\ responses[1].error = "Authorization not yet valid"

\* an authorization checked in the very second it expires
C6_Witness ==
    /\ TimeChecked
    /\ ToNumber(authorization.validBefore) = timeNow
    /\ ToNumber(authorization.validAfter) <= timeNow
    /\ pc = "done"
    /\ responses[1].error = "Authorization expired"

ExecutorFailed == execOut.threw \/ ~execOut.success

\* C7: handling a request body, well-formed or not, ends in exactly one
\* outcome: 400 with an error message for a shape, network, signature or
\* time-window fault, 500 for an executor failure, 200 otherwise; the executor
\* is invoked at most once per request.
C7_OneOutcome ==
    /\ execCalls <= 1
    /\ Len(responses) <= 1
    /\ (pc = "done") <=> (Len(responses) = 1)
    /\ pc # "done" => ENABLED (Receive \/ ValidateStep \/ ResolveStep \/ VerifyStep
                                \/ TimeStep \/ ExecuteStep \/ MintStep)
    /\ pc = "done" =>
          LET status == responses[1].status
          IN  /\ status \in {200, 400, 500}
              /\ (status = 400) <=> (checks # AllChecks)
              /\ status = 400 => responses[1].error # "" /\ execCalls = 0
              /\ (status = 500) <=> (checks = AllChecks /\ execCalls = 1 /\ ExecutorFailed)
              /\ (status = 200) <=> (checks = AllChecks /\ execCalls = 1 /\ ~ExecutorFailed)

\* a request the executor failed
C7_Witness ==
    /\ pc = "done"
    /\ responses[1].status = 500
    /\ execCalls = 1
    /\ ~execOut.success /\ ~execOut.threw

----------------------------------------------------------------------------
(* Properties of receipt verification *)

\* the token is what createReceiptToken made of the receipt, and it was
\* verified with a secret and nothing else
RoundTripCall ==
    /\ rcStage = "verified"
    /\ \E s \in Secrets : rcToken = createReceiptToken(rcReceipt, s)
    /\ rcOpts.jwtSecret.type = "string"
    /\ rcOpts.facilitatorPublicKey = Undefined
    /\ rcOpts.expectedContentId = Undefined

\* C8: a token made by createReceiptToken(r, s) and verified with s before
\* r.expiresAt is valid and yields a receipt equal to r; verified with any
\* other secret, or at any time after r.expiresAt, it is not valid.
C8_RoundTrip ==
    RoundTripCall =>
        /\ (rcOpts.jwtSecret.s = rcToken.tag.key /\ rcAt < rcReceipt.expiresAt)
              => (rcRet.valid /\ rcRet.receipt = rcReceipt)
        /\ rcOpts.jwtSecret.s # rcToken.tag.key => ~rcRet.valid
        /\ rcAt > rcReceipt.expiresAt => ~rcRet.valid

\* C9: in every mode verifyReceipt answers valid:true only if the receipt
\* expires strictly after the time of the call and, when an expected content
\* id is given, the receipt's contentId equals it.
C9_ValidOnlyIfUnexpired ==
    (rcStage = "verified" /\ rcRet.valid) =>
        /\ rcRet.receipt.expiresAt > rcAt
        /\ rcOpts.expectedContentId.type = "string"
              => rcRet.receipt.contentId = rcOpts.expectedContentId.s

----------------------------------------------------------------------------
(* Properties of the resource server *)

\* the token the last request carried, as extractReceiptFromHeaders reads it
Presented == extractReceiptFromHeaders(request.headers)

\* that token is a receipt the facilitator's secret signed, it has not expired
\* when the request is served, and it is for the content of the request
PresentedIsGood ==
    /\ TextTruthy(Presented)
    /\ LET token == ParseToken(Presented)
       IN  /\ token.wellFormed
           /\ token.alg = "HS256"
           /\ token.tag = [key |-> JwtSecret, claims |-> token.claims]
           /\ token.claims.expiresAt > outcome.at
           /\ token.claims.contentId = request.path

\* C10: the wrapped handler is invoked only for a request whose headers carry
\* a token that verifies (signed, not expired) and whose receipt is for the
\* content id of the request, whether the verifier answered afresh or from
\* its cache; every other request (missing, expired, invalid, wrong content)
\* is answered 402 with a payment request for that content id.
C10_HandlerOnlyWithValidReceipt ==
    request # NoRequest =>
        /\ outcome.handled =>
              /\ PresentedIsGood
              /\ outcome.x402.receiptToken = Presented
              /\ outcome.x402.contentId = request.path
              /\ outcome.x402.receipt.contentId = request.path
        /\ ~outcome.handled =>
              /\ outcome.status = 402
              /\ outcome.payment.contentId = request.path

----------------------------------------------------------------------------
(* Properties of the budget manager *)

\* a price in the smallest unit
Smallest(price) == BigInt(parsePrice(price))

\* the amount and the limits of the policy are prices parsePrice accepts
Priced(amount) ==
    /\ ~parsePriceThrows(amount)
    /\ PriceTruthy(policy.maxPerRequest) => ~parsePriceThrows(policy.maxPerRequest)
    /\ PriceTruthy(policy.maxTotal) => ~parsePriceThrows(policy.maxTotal)

DomainPasses(domain) ==
    \/ policy.allowedDomains = Undefined
    \/ policy.allowedDomains.items = <<>>
    \/ domain = Undefined \/ domain = Str("")
    \/ \E i \in 1..Len(policy.allowedDomains.items) :
          policy.allowedDomains.items[i] = domain.s

PerRequestPasses(amount) ==
    ~PriceTruthy(policy.maxPerRequest)
        \/ Smallest(amount) <= Smallest(policy.maxPerRequest)

TotalPasses(amount, spent) ==
    ~PriceTruthy(policy.maxTotal)
        \/ spent + Smallest(amount) <= Smallest(policy.maxTotal)

\* the reason of the first check that fails, in the order domain,
\* per-request, total
FirstFailing(amount, domain, spent) ==
    IF ~DomainPasses(domain) THEN "Domain is not in the allowed list"
    ELSE IF ~PerRequestPasses(amount) THEN "Amount exceeds per-request limit"
    ELSE IF ~TotalPasses(amount, spent) THEN "Would exceed total budget"
    ELSE ""

\* C13: assertSpend throws nothing when checkSpend allows, and otherwise the
\* budget error whose code is that of the check that rejected: the domain
\* check DOMAIN_NOT_ALLOWED (and only it), the per-request check
\* PER_REQUEST_LIMIT, the total check BUDGET_EXCEEDED.
C13_AssertSpendCode ==
    (budgetCall.op = "assertSpend" /\ ~budgetCall.check.threw) =>
        IF budgetCall.check.allowed
        THEN budgetCall.error = NoError
        ELSE budgetCall.error =
               X402BudgetError(
                 CASE budgetCall.check.reason = "Domain is not in the allowed list"
                        -> "DOMAIN_NOT_ALLOWED"
                   [] budgetCall.check.reason = "Amount exceeds per-request limit"
                        -> "PER_REQUEST_LIMIT"
                   [] OTHER -> "BUDGET_EXCEEDED")

RECURSIVE SumAmounts(_)
SumAmounts(records) ==
    IF records = <<>> THEN 0
    ELSE SumAmounts(SubSeq(records, 1, Len(records) - 1))
           + ParseDigits(records[Len(records)].amount)

\* C15: totalSpent is the sum of the recorded amounts; each recordSpend adds
\* its amount to totalSpent and appends one record, with that amount, at the
\* end of the history; reset returns totalSpent to 0 and empties the history.
C15_SpendAccounting ==
    /\ totalSpent = SumAmounts(history)
    /\ (budgetCall.op = "recordSpend" /\ IsDigits(budgetCall.amount.s)) =>
          /\ totalSpent = budgetCall.spentBefore + ParseDigits(budgetCall.amount.s)
          /\ Len(history) = Len(budgetCall.historyBefore) + 1
          /\ SubSeq(history, 1, Len(history) - 1) = budgetCall.historyBefore
          /\ history[Len(history)].amount = budgetCall.amount.s
    /\ budgetCall.op = "reset" => (totalSpent = 0 /\ history = <<>>)

C15_Witness ==
    /\ budgetCall.op = "recordSpend"
    /\ Len(history) = 2
    /\ history[1].amount # history[2].amount
    /\ totalSpent = 2000000

----------------------------------------------------------------------------
(* Properties of the receipt cache *)

\* the last set of the id was followed by no delete and no clear, and at the
\* given clock its time to live has not run out
Held(id, clock) ==
    /\ written[id].live
    /\ DateNow(clock) <= DateNow(written[id].at) + written[id].ttl * 1000

\* C16: get(id) returns the token of the most recent set(id, tok, TTL) that
\* no delete(id) or clear() followed while the clock is <= set-time + TTL;
\* strictly after, it returns null and the entry is gone; for an id never
\* set (or deleted, or cleared) it returns null.
C16_CacheGet ==
    cacheCall.op = "get" =>
        LET id == cacheCall.contentId
        IN  IF Held(id, cacheCall.at)
            THEN cacheCall.ret = Str(written[id].token)
            ELSE /\ cacheCall.ret = Null
                 /\ MapGet(receiptCache, id) = Undefined

C16_Witness ==
    /\ cacheCall.op = "get"
    /\ cacheCall.ret = Str("jwt.two")
    /\ written[cacheCall.contentId].ttl = 1
    /\ cacheCall.at = written[cacheCall.contentId].at + 1

\* C17: size and keys() answer with exactly the entries that have not
\* expired and leave no expired entry in the map; has(id) is true exactly
\* for an entry that has not expired.
C17_NoExpiredReported ==
    LET held == {id \in CacheIds : Held(id, cacheCall.at)}
    IN  /\ cacheCall.op = "size" =>
              /\ cacheCall.ret = Num(Cardinality(held))
              /\ \A e \in receiptCache : ~(DateNow(cacheCall.at) > e.expiresAt)
        /\ cacheCall.op = "keys" =>
              /\ cacheCall.ret.ids = held
              /\ \A e \in receiptCache : ~(DateNow(cacheCall.at) > e.expiresAt)
        /\ cacheCall.op = "has" =>
              /\ cacheCall.ret.b <=> cacheCall.contentId \in held
              /\ ~cacheCall.ret.b => MapGet(receiptCache, cacheCall.contentId) = Undefined

C17_Witness ==
    /\ cacheCall.op = "size"
    /\ cacheCall.ret = Num(1)
    /\ \E id \in CacheIds : written[id].live /\ ~Held(id, cacheCall.at)

----------------------------------------------------------------------------
(* Properties of the retry loop *)

Submissions == {i \in 1..Len(retryLog) : retryLog[i].event = "submit"}
Waits == {i \in 1..Len(retryLog) : retryLog[i].event = "wait"}

\* C20: with maxRetries = R at most R + 1 submissions are made; submissions
\* and delays alternate, the delay after submission k (k = 0..R-1) being
\* backoffMs * 2^k, and no delay follows the last submission; a successful
\* submission ends the call at once; when all R + 1 fail, the error of the
\* last one is thrown.
C20_RetryPolicy ==
    LET R == maxRetriesOf(retryOpts)
        backoff == backoffMsOf(retryOpts)
    IN  /\ Cardinality(Submissions) <= (IF R >= 0 THEN R + 1 ELSE 0)
        /\ \A i \in 1..Len(retryLog) :
              IF i % 2 = 1
              THEN retryLog[i].event = "submit"
              ELSE /\ retryLog[i].event = "wait"
                   /\ retryLog[i].delay = backoff * 2^((i \div 2) - 1)
                   /\ (i \div 2) - 1 \in 0..(R - 1)
        /\ \A i \in Submissions :
              retryLog[i].answer = "receipt" =>
                  /\ i = Len(retryLog)
                  /\ retryPc = "done"
                  /\ retryOut.kind = "returned"
        /\ retryPc = "done" =>
              /\ retryLog # <<>> => retryLog[Len(retryLog)].event = "submit"
              /\ (retryOut.kind = "threw" /\ R >= 0) =>
                    /\ Cardinality(Submissions) = R + 1
                    /\ \A i \in Submissions : retryLog[i].answer # "receipt"
                    /\ retryOut.error = retryLog[Len(retryLog)].error

C20_Witness ==
    /\ retryPc = "done"
    /\ retryOut.kind = "threw"
    /\ Cardinality(Submissions) = 4
    /\ Cardinality(Waits) = 3
    /\ retryLog[Len(retryLog)].answer = "unreachable"

\* C21: a further submission is made only after a failure whose code is
\* FACILITATOR_ERROR; a failure with another code (NETWORK_ERROR when the
\* facilitator cannot be reached, for one) is thrown at once, with no delay
\* and no submission after it
C21_RetryOnlyFacilitatorError ==
    \A i \in Submissions :
        (retryLog[i].error # NoError /\ retryLog[i].error.code # "FACILITATOR_ERROR") =>
            /\ i = Len(retryLog)
            /\ retryPc = "done"
            /\ retryOut = [kind |-> "threw", error |-> retryLog[i].error]

----------------------------------------------------------------------------
(* Properties of X402AgentClient *)

\* the positions of the steps of one kind in the call in progress
StepsOf(event) == {i \in 1..Len(steps) : steps[i].event = event}

\* the call in progress submitted a payment to the facilitator
FacilitatorContacted == StepsOf("submitted") # {}

\* the payment request the call in progress got from its 402
Announced == agentCall.paymentRequest

\* the announced payment breaches the policy: its price is over the
\* per-request limit or over what is left of the total, or the facilitator's
\* domain is not on the allow-list
BudgetBreached ==
    \/ ~DomainPasses(Str(extractDomain(Announced.facilitatorUrl)))
    \/ ~PerRequestPasses(Announced.price)
    \/ ~TotalPasses(Announced.price, totalSpent)

\* C11: in the payment sub-flow the budget check comes before the signing
\* and before any submission to the facilitator; when the announced payment
\* breaches the policy the call ends right after the check, rejected with a
\* budget error (PER_REQUEST_LIMIT for a price over the per-request limit of
\* a policy without allow-list), nothing was signed and no request went to
\* the facilitator
C11_BudgetCheckFirst ==
    /\ \A i \in StepsOf("sign") : \E j \in StepsOf("assert") : j < i
    /\ FacilitatorContacted => StepsOf("assert") # {} /\ StepsOf("sign") # {}
    /\ (StepsOf("assert") # {} /\ StepsOf("record") = {} /\ BudgetBreached) =>
          /\ steps[Len(steps)].event = "assert"
          /\ agentPc = "idle"
          /\ agentOut.kind = "threw"
          /\ agentOut.error.name = "X402BudgetError"
          /\ (policy.allowedDomains = Undefined /\ ~PerRequestPasses(Announced.price))
                => agentOut.error.code = "PER_REQUEST_LIMIT"
          /\ StepsOf("sign") = {}
          /\ ~FacilitatorContacted

\* a fetch under the policy {maxPerRequest: 1.00} met a price of 5.00 and was
\* rejected with PER_REQUEST_LIMIT before anything went to the facilitator
C11_Witness ==
    /\ agentCall.op = "fetch"
    /\ policy = [NoPolicy EXCEPT !.maxPerRequest = Price(1, 0)]
    /\ Announced.price = Price(5, 0)
    /\ agentOut = [kind |-> "threw", status |-> 0,
                   error |-> X402BudgetError("PER_REQUEST_LIMIT")]
    /\ ~FacilitatorContacted

\* C12: fetch and pay calls of one client that follow one another never
\* spend more than the policy allows: totalSpent stays within maxTotal when
\* maxTotal is set, and every recorded payment is within maxPerRequest when
\* maxPerRequest is set
C12_SpendWithinPolicy ==
    /\ PriceTruthy(policy.maxTotal) => totalSpent <= Smallest(policy.maxTotal)
    /\ PriceTruthy(policy.maxPerRequest) =>
          \A i \in 1..Len(history) :
             BigInt(Str(history[i].amount)) <= Smallest(policy.maxPerRequest)

\* under {maxPerRequest: 1.00, maxTotal: 0.75} one payment of 0.50 was
\* recorded and the next call was refused a second one
C12_Witness ==
    /\ PriceTruthy(policy.maxTotal) /\ PriceTruthy(policy.maxPerRequest)
    /\ Len(history) = 1
    /\ totalSpent = 500000
    /\ calls = 2
    /\ agentOut.error = X402BudgetError("BUDGET_EXCEEDED")

\* the first of a set of positions
FirstOf(positions) == CHOOSE i \in positions : \A j \in positions : i <= j

\* the call in progress is a fetch of a url for which an earlier fetch of
\* this client paid, and it looked the cache up within the TTL of that receipt
FetchedAgain ==
    /\ agentCall.op = "fetch"
    /\ paidFor[agentCall.url].paid
    /\ paidFor[agentCall.url].call < calls
    /\ DateNow(agentCall.lookupAt)
          <= DateNow(paidFor[agentCall.url].at) + defaultTTL * 1000

\* C18: a fetch of a url for which an earlier fetch of the same client paid,
\* made within the cache TTL, sends the resource request with the cached
\* receipt token; once the server has answered that request with a 2xx status
\* the call is over, with this one request and none to the facilitator
C18_SecondFetchUsesCachedReceipt ==
    (FetchedAgain /\ StepsOf("request") # {}) =>
        LET first == steps[FirstOf(StepsOf("request"))]
        IN  /\ first.token = paidFor[agentCall.url].token
            /\ ResponseOk(first.response) =>
                  /\ agentPc = "idle"
                  /\ Cardinality(StepsOf("request")) = 1
                  /\ StepsOf("assert") = {}
                  /\ ~FacilitatorContacted

\* which step may follow which within one call
StepOrder ==
    {<<"lookup", "request">>, <<"request", "request">>, <<"request", "assert">>,
     <<"assert", "sign">>, <<"sign", "submitted">>, <<"submitted", "store">>,
     <<"store", "record">>, <<"record", "request">>}

\* the resource requests of a fetch that are neither the one sent with a
\* receipt the cache held nor the one re-issued after the payment
InitialRequests ==
    {i \in StepsOf("request") :
        /\ i > 1
        /\ \/ steps[i - 1].event = "request"
           \/ steps[i - 1].event = "lookup" /\ steps[i].token = ""}

\* a 402 whose payment parameters cannot be parsed: its body is no JSON, or
\* neither body nor headers name the payee, the price, the contentId or the
\* network
Unparseable(response) ==
    /\ response.status = 402
    /\ \/ ~response.json
       \/ \E f \in {"payTo", "price", "contentId", "network"} :
             Falsy(response.body[f]) /\ Falsy(response.headers[f])

\* the call in progress ended at step i without any payment
EndedWithoutPayment(i) ==
    /\ i = Len(steps)
    /\ agentPc = "idle"
    /\ StepsOf("assert") = {}
    /\ ~FacilitatorContacted

\* C19: within one fetch the steps run in the order cache lookup, resource
\* request, payment (budget check, signing, submission, caching, recording),
\* re-issued request; the payment starts, and the facilitator is contacted,
\* only after a 402 answer to a request of the same call; a non-402 answer to
\* the initial request is returned as it is with no payment; a 402 answer to
\* it whose payment parameters cannot be parsed makes the call fail with
\* INVALID_402_RESPONSE before the payment starts
C19_FetchStepOrder ==
    agentCall.op = "fetch" =>
        /\ steps # <<>> /\ steps[1].event = "lookup" /\ StepsOf("lookup") = {1}
        /\ \A i \in 2..Len(steps) : <<steps[i - 1].event, steps[i].event>> \in StepOrder
        /\ Cardinality(StepsOf("request")) <= 3
        /\ \A i \in StepsOf("assert") : steps[i - 1].response.status = 402
        /\ FacilitatorContacted =>
              \E i \in StepsOf("request") :
                 steps[i].response.status = 402 /\ i < FirstOf(StepsOf("sign"))
        /\ \A i \in InitialRequests :
              /\ steps[i].response.status # 402 =>
                    /\ EndedWithoutPayment(i)
                    /\ agentOut = [kind |-> "returned",
                                   status |-> steps[i].response.status,
                                   error |-> NoError]
              /\ Unparseable(steps[i].response) =>
                    /\ EndedWithoutPayment(i)
                    /\ agentOut = [kind |-> "threw", status |-> 0,
                                   error |-> X402PaymentError("INVALID_402_RESPONSE")]

\* a fetch found no receipt, was answered 402, paid and re-issued the
\* request, all eight steps in order
C19_Witness ==
    /\ agentCall.op = "fetch"
    /\ agentPc = "idle"
    /\ [i \in 1..Len(steps) |-> steps[i].event]
          = <<"lookup", "request", "assert", "sign", "submitted", "store",
              "record", "request">>
    /\ agentOut.status = 200

\* the events of one kind the call in progress emitted
EmittedOf(event) == {i \in 1..Len(emitted) : emitted[i].event = event}

\* the payment sub-flow of the call in progress has begun; it is over
SubFlowBegun == StepsOf("assert") # {}
SubFlowOver == SubFlowBegun /\ agentPc \in {"idle", "retry-request"}

\* C22: a payment sub-flow emits payment_started first, before the budget
\* check, and by its end exactly one of payment_success and payment_failed:
\* payment_success only after the receipt was cached and the spend
\* recorded, payment_failed with the error that the call then throws; a call
\* without sub-flow emits nothing
C22_PaymentEvents ==
    /\ ~SubFlowBegun => emitted = <<>>
    /\ SubFlowBegun =>
          /\ EmittedOf("payment_started") = {1}
          /\ emitted[1].after < FirstOf(StepsOf("assert"))
          /\ Cardinality(EmittedOf("payment_success") \cup EmittedOf("payment_failed"))
                = (IF SubFlowOver THEN 1 ELSE 0)
    /\ \A i \in EmittedOf("payment_success") :
          /\ \E j \in StepsOf("store") : j <= emitted[i].after
          /\ \E j \in StepsOf("record") : j <= emitted[i].after
          /\ agentOut.kind # "threw"
    /\ \A i \in EmittedOf("payment_failed") :
          /\ emitted[i].error # NoError
          /\ i = Len(emitted)
          /\ agentPc = "idle"
          /\ agentOut = [kind |-> "threw", status |-> 0, error |-> emitted[i].error]

\* a fetch emitted payment_started, the budget warning and payment_success
\* and came back with the response to its re-issued request
C22_Witness ==
    /\ agentCall.op = "fetch"
    /\ agentPc = "idle"
    /\ [i \in 1..Len(emitted) |-> emitted[i].event]
          = <<"payment_started", "budget_warning", "payment_success">>
    /\ emitted[1].ran # <<>>
    /\ agentOut.kind = "returned"

\* the outcome the steps of a finished call lead to
OutcomeOfSteps ==
    LET last == steps[Len(steps)]
    IN  IF last.error # NoError
        THEN [kind |-> "threw", status |-> 0, error |-> last.error]
        ELSE [kind |-> "returned", status |-> last.response.status, error |-> NoError]

\* C23: a handler that throws stops neither emit nor the call: every emit
\* runs all the handlers of its event in the order of registration, and the
\* outcome of a call that went through the payment sub-flow is the one its
\* steps lead to, whatever the handlers did
C23_ListenersIsolated ==
    /\ \A i \in 1..Len(emitted) :
          emitted[i].ran = [j \in 1..Len(listeners[emitted[i].event]) |-> j]
    /\ (agentPc = "idle" /\ SubFlowBegun) => agentOut = OutcomeOfSteps

\* the first handler of every event throws, and a fetch that paid still ran
\* the second one for each of its events and returned the paid response
C23_Witness ==
    /\ \A event \in PaymentEventTypes : listeners[event] = <<"throws", "returns">>
    /\ agentCall.op = "fetch"
    /\ agentPc = "idle"
    /\ EmittedOf("payment_success") # {}
    /\ \A i \in 1..Len(emitted) : emitted[i].ran = <<1, 2>>
    /\ agentOut = [kind |-> "returned", status |-> 200, error |-> NoError]
    /\ receiptCache # {}

\* the announced price of the x402Fetch call in progress exceeds its maxPrice
OverMaxPrice ==
    /\ agentCall.op = "x402Fetch"
    /\ agentCall.paymentRequest # NoPaymentRequest
    /\ PriceTruthy(agentCall.maxPrice)
    /\ ~parsePriceThrows(agentCall.maxPrice)
    /\ BigInt(parsePrice(agentCall.paymentRequest.price))
          > BigInt(parsePrice(agentCall.maxPrice))

\* C24: x402Fetch never signs nor contacts the facilitator for a price above
\* maxPrice and throws the budget error PER_REQUEST_LIMIT; no call signs or
\* submits to the facilitator more than once; a call whose payment went
\* through re-issues the request once, with the receipt, and returns its
\* response, and no request is re-issued without a payment
C24_MaxPriceGuard ==
    agentCall.op = "x402Fetch" =>
        /\ OverMaxPrice =>
              /\ StepsOf("sign") = {} /\ StepsOf("submitted") = {}
              /\ agentPc = "idle" =>
                    agentOut = [kind |-> "threw", status |-> 0,
                                error |-> X402BudgetError("PER_REQUEST_LIMIT")]
        /\ Cardinality(StepsOf("sign")) <= 1
        /\ Cardinality(StepsOf("submitted")) <= 1
        /\ \A i \in StepsOf("submitted") : StepsOf("sign") # {} /\ StepsOf("guard") # {}
        /\ \A i \in StepsOf("request") :
              \/ i = 1 /\ steps[i].token = ""
              \/ /\ i = Len(steps)
                 /\ steps[i - 1].event = "submitted" /\ steps[i - 1].error = NoError
                 /\ steps[i].token = agentCall.receiptToken
                 /\ agentOut = [kind |-> "returned",
                                status |-> steps[i].response.status, error |-> NoError]
        /\ (agentPc = "idle" /\ \E i \in StepsOf("submitted") : steps[i].error = NoError)
              => Cardinality(StepsOf("request")) = 2

\* both cases: a call with maxPrice 0.50 paid a price of 0.50 and got a 402
\* again on its re-issued request, which it returned
C24_Witness ==
    /\ agentCall.op = "x402Fetch"
    /\ agentCall.maxPrice = Price(0, 5000000)
    /\ agentCall.paymentRequest.price = Price(0, 5000000)
    /\ agentPc = "idle"
    /\ Cardinality(StepsOf("request")) = 2
    /\ agentOut = [kind |-> "returned", status |-> 402, error |-> NoError]

\* the token the three headers give when every name is looked up without
\* regard to case
FirstReceiptToken(entries) ==
    LET receipt == HeadersGet(entries, "X-402-Receipt")
        xPayment == HeadersGet(entries, "X-PAYMENT")
        auth == HeadersGet(entries, "Authorization")
    IN  IF TextTruthy(receipt) THEN receipt
        ELSE IF TextTruthy(xPayment) THEN xPayment
        ELSE IF auth.type = "string" /\ auth.prefix = "X402 " THEN Text("", auth.jwt)
        ELSE Null

\* C25: extractReceiptFromHeaders returns the first token in the order
\* X-402-Receipt, X-PAYMENT, Authorization with the prefix "X402 " stripped,
\* null when there is none, the names matched without regard to case for a
\* Headers object and for a plain object alike
C25_ExtractReceipt ==
    pureCall.fn = "extractReceiptFromHeaders" =>
        pureCall.output = FirstReceiptToken(pureCall.input.entries)

RequiredFields == {"payTo", "price", "contentId", "network"}

\* a field that neither the body nor the headers of the parsed 402 carry
InNeither(field) ==
    /\ pureCall.input.body[field].type = "undefined"
    /\ pureCall.input.headers[field].type \in {"undefined", "null"}

\* C26: parsePaymentRequired (and parsePaymentRequiredFromParts) gives null
\* for a 402 exactly when one of payTo, price, contentId, network is in
\* neither body nor headers, and otherwise takes each of them from the body
\* when it is there and from the header when not; so headers that carry all
\* four give a payment request whatever the body is
C26_ParsePaymentRequired ==
    (pureCall.fn \in {"parsePaymentRequired", "parsePaymentRequiredFromParts"}
        /\ pureCall.input.status = 402) =>
       /\ pureCall.output = Null <=> \E field \in RequiredFields : InNeither(field)
       /\ pureCall.output # Null =>
             \A field \in RequiredFields :
                pureCall.output[field] =
                    IF pureCall.input.body[field].type # "undefined"
                    THEN pureCall.input.body[field]
                    ELSE pureCall.input.headers[field]

\* the signature of a token fits the key the config names: the secret, or
\* without a secret the private key that belongs to the public key
SignatureChecked(config, token) ==
    /\ token.wellFormed
    /\ \/ /\ Truthy(config.jwtSecret)
          /\ token.alg = "HS256"
          /\ token.tag = [key |-> config.jwtSecret.s, claims |-> token.claims]
       \/ /\ ~Truthy(config.jwtSecret)
          /\ Truthy(config.facilitatorPublicKey)
          /\ token.alg = "ES256"
          /\ token.tag = [key |-> PrivateKeyOf(config.facilitatorPublicKey.s),
                          claims |-> token.claims]

\* C27: for every config, ReceiptVerifier.verify answers valid only for a
\* token whose signature was checked against the jwtSecret or the
\* facilitatorPublicKey of the config
C27_ValidOnlyIfSignatureChecked ==
    (pureCall.fn = "verify" /\ pureCall.output.valid) =>
        SignatureChecked(pureCall.input.config, pureCall.input.token)

\* C28: ReceiptVerifier.verify, and with it the adapter, never answers
\* valid for a token at a time later than the expiresAt of its receipt,
\* whether it verified afresh or answered from its cache
C28_NoValidAfterExpiry ==
    (request # NoRequest /\ outcome.handled) =>
        outcome.at <= outcome.x402.receipt.expiresAt

\* C29: with one secret shared by facilitator and resource server, whenever
\* the adapter of the route (payTo RouteConfig.payTo, price RouteConfig.price)
\* invokes the handler, the presented receipt is one the facilitator minted
\* for a transfer it executed, whose recipient is the payTo of the route and
\* whose value is at least the price of the route in smallest units
C29_HandlerOnlyForPaidRoute ==
    (request # NoRequest /\ outcome.handled) =>
        /\ outcome.x402.receipt \in minted
        /\ execCalls >= 1 /\ execOut.success
        /\ authorization.to.s = RouteConfig.payTo
        /\ BigInt(authorization.value) >= BigInt(parsePrice(RoutePrice))

\* C30: calls that overlap on one client are not serialized. Every payment
\* passed the budget check against the totalSpent of the moment of its check
\* and every recorded amount is in totalSpent, yet totalSpent can exceed
\* maxTotal: it does so only when a payment was recorded by another call
\* between the check and the record of a call, never when each call records
\* against the totalSpent it was checked with (calls one after another)
C30_RacyBudget ==
    /\ totalSpent = SumAmounts(history)
    /\ \A f \in Flows :
          (flows[f].pc \in {"signing", "submitting"} \/ flows[f].recorded) =>
             flows[f].checkedAgainst + Smallest(flows[f].price)
                <= Smallest(policy.maxTotal)
    /\ totalSpent > Smallest(policy.maxTotal) =>
          \E f \in Flows : flows[f].raced
    /\ (\A f \in Flows : ~flows[f].raced) => totalSpent <= Smallest(policy.maxTotal)

\* both calls passed the check for 0.50 against a totalSpent of 0 before
\* either recorded, and 1.00 is spent under a maxTotal of 0.75
C30_Witness ==
    /\ totalSpent > Smallest(policy.maxTotal)
    /\ \A f \in Flows : flows[f].recorded /\ flows[f].checkedAgainst = 0

----------------------------------------------------------------------------
(* Properties of requests handled at the same time *)

Finished(r) == handling.reqs[r].pc = "done"

\* what the request r would be answered if it were handled alone with the
\* clock values and the executor answer it met
HandledAlone(r) ==
    LET own == handling.reqs[r]
    IN  handlePayment(own.body, feeCfg, own.timeNow, own.answer, own.mintAt, own.id)

InsideWindow(r) ==
    /\ ToNumber(AuthorizationOf(handling.reqs[r].body).validAfter)
          <= handling.reqs[r].timeNow
    /\ handling.reqs[r].timeNow
          < ToNumber(AuthorizationOf(handling.reqs[r].body).validBefore)

AnsweredByMock(r) ==
    handling.reqs[r].answer =
        MockExecute([authorization |-> AuthorizationOf(handling.reqs[r].body)])

\* C31: under any interleaving of the requests handled at the same time, the
\* status, error, receipt and txHash of each answer are those the request
\* gets when handled alone at the same clock values with the same executor
\* answer; and with the mock executor a payload that was accepted is accepted
\* again with the same txHash when it is submitted again inside its window
C31_RequestsIsolated ==
    /\ \A r \in Requests : Finished(r) => handling.reqs[r].response = HandledAlone(r)
    /\ \A r, q \in Requests :
          (/\ Finished(r) /\ Finished(q)
           /\ handling.reqs[r].body = handling.reqs[q].body
           /\ handling.reqs[r].response.status = 200
           /\ AnsweredByMock(r) /\ AnsweredByMock(q)
           /\ InsideWindow(q))
          => /\ handling.reqs[q].response.status = 200
             /\ handling.reqs[q].response.txHash = handling.reqs[r].response.txHash

\* two requests with the same payload were answered 200 with the same txHash
\* by the mock executor, the second one validated while the first was still
\* being handled
C31_Witness ==
    /\ Finished(1) /\ Finished(2)
    /\ handling.reqs[1].body = handling.reqs[2].body
    /\ handling.reqs[1].response.status = 200
    /\ handling.reqs[2].response.status = 200
    /\ AnsweredByMock(1) /\ AnsweredByMock(2)
    /\ handling.reqs[1].timeNow < handling.reqs[2].timeNow
    /\ handling.reqs[1].mintAt > handling.reqs[2].timeNow
    /\ handling.reqs[1].response.txHash = handling.reqs[2].response.txHash

\* the executor was called for the request r
HandedToExecutor(r) == handling.reqs[r].fees # NoFees

\* C33: every authorization handed to the executor has validAfter <
\* validBefore and a value of at least 1; no transfer is executed and no
\* receipt is minted for a value of 0
C33_ExecutorGetsPositiveValue ==
    \A r \in Requests :
       HandedToExecutor(r) =>
          /\ ToNumber(AuthorizationOf(handling.reqs[r].body).validAfter)
                < ToNumber(AuthorizationOf(handling.reqs[r].body).validBefore)
          /\ BigInt(AuthorizationOf(handling.reqs[r].body).value) >= 1

\* the window half of C33 alone
C33_WindowOpen ==
    \A r \in Requests :
       HandedToExecutor(r) =>
          /\ ToNumber(AuthorizationOf(handling.reqs[r].body).validAfter)
                <= handling.reqs[r].timeNow
          /\ handling.reqs[r].timeNow
                < ToNumber(AuthorizationOf(handling.reqs[r].body).validBefore)

\* a receipt was minted for a transfer of nothing
C33_ReceiptForNothing ==
    \E r \in Requests :
       /\ Finished(r)
       /\ handling.reqs[r].response.status = 200
       /\ BigInt(AuthorizationOf(handling.reqs[r].body).value) = 0

----------------------------------------------------------------------------
(* Properties of the cached receipt of fetch *)

\* the request that carries the cached receipt was answered
CachedRequestAnswered ==
    /\ agentCall.op = "fetch"
    /\ Len(steps) >= 2
    /\ steps[1].token # ""

\* what fetch does with the answer to a cached receipt, whatever headers the
\* request after a 402 carries; reset() between two calls empties the cache
\* and forgets the payments
CachedAnswerHandled(tokenAfter402) ==
    CachedRequestAnswered =>
        IF steps[2].response.status = 402
        THEN /\ Len(steps) = 2 =>
                   /\ agentPc = "initial-request"
                   /\ MapGet(receiptCache, agentCall.contentId) = Undefined
             /\ Len(steps) >= 3 =>
                   /\ steps[3].event = "request"
                   /\ steps[3].token = tokenAfter402
        ELSE /\ agentPc = "idle"
             /\ Len(steps) = 2
             /\ agentOut = [kind |-> "returned", status |-> steps[2].response.status,
                            error |-> NoError]
             /\ paidFor[agentCall.url].paid =>
                   /\ MapGet(receiptCache, agentCall.contentId) # Undefined
                   /\ MapGet(receiptCache, agentCall.contentId).token = steps[1].token

\* C32: when the request that carries a cached receipt is answered 402, fetch
\* evicts the cache entry and the next request it issues for the resource
\* carries no receipt; when the answer is any other status, fetch returns it
\* and leaves the cache entry in place
C32_StaleReceiptDropped == CachedAnswerHandled("")

\* the same with the request after the 402 carrying the evicted receipt
C32_StaleReceiptSentAgain == CachedAnswerHandled(steps[1].token)

\* a cached receipt was answered 402 and the next request was sent
C32_Reissued ==
    /\ CachedRequestAnswered
    /\ steps[2].response.status = 402
    /\ Len(steps) >= 3

----------------------------------------------------------------------------
(* Properties of cancellation *)

\* what the loop did after the signal fired
AfterAbort == {i \in 1..Len(retryLog) : i > signal.seen}

\* C34: once the signal of the caller fires, a pending backoff sleep ends and
\* no further submission to the facilitator is made
C34_CancelStopsRetries ==
    signal.aborted =>
        /\ \A i \in AfterAbort : retryLog[i].event # "submit"
        /\ \A i \in AfterAbort : retryLog[i].event = "wait" => retryLog[i].delay = 0

\* the signal fired during a backoff sleep, which ran its full time, and the
\* loop went on to submit again
C34_SleptAndSubmitted ==
    /\ signal.aborted
    /\ signal.seen + 2 <= Len(retryLog)
    /\ retryLog[signal.seen + 1].event = "wait"
    /\ retryLog[signal.seen + 1].delay > 0
    /\ retryLog[signal.seen + 2].event = "submit"

----------------------------------------------------------------------------
(* Properties of the budget warning *)

\* the last call was a recordSpend that recorded
Recorded ==
    /\ budgetCall.op = "recordSpend"
    /\ history # budgetCall.historyBefore

\* that recordSpend invoked onBudgetWarning
Warned ==
    /\ Recorded
    /\ budgetCall.error = NoError
    /\ budgetWarningFires(policy, totalSpent)

Threshold == (BigInt(parsePrice(policy.maxTotal)) * 80) \div 100

\* C35: with maxTotal set, recordSpend invokes the warning callback on the
\* record that moves totalSpent from below 80 % of maxTotal to at or above
\* it, and on no other record
C35_WarningOncePerCrossing ==
    (Recorded /\ PriceTruthy(policy.maxTotal) /\ ~parsePriceThrows(policy.maxTotal)) =>
        (Warned <=> /\ budgetCall.spentBefore < Threshold
                    /\ totalSpent >= Threshold)

\* what recordSpend does: it warns on every record that leaves totalSpent
\* between the threshold and maxTotal
C35_WarningOnEveryRecordAbove ==
    (Recorded /\ PriceTruthy(policy.maxTotal) /\ ~parsePriceThrows(policy.maxTotal)) =>
        (Warned <=> /\ totalSpent >= Threshold
                    /\ totalSpent <= BigInt(parsePrice(policy.maxTotal)))

\* a second warning with no crossing in between
C35_WarnedAgain ==
    /\ Warned
    /\ budgetCall.spentBefore >= Threshold

----------------------------------------------------------------------------
(* Properties of the allow-list of domains *)

AllowListSet ==
    /\ policy.allowedDomains.type = "array"
    /\ Len(policy.allowedDomains.items) > 0

\* C36: under a non-empty allowedDomains the client pays only for resources
\* whose own host is in the list, and the domain of a payment record is the
\* host of the resource that was paid for (reset() empties the history)
C36_PaysForAllowedResourcesOnly ==
    /\ (AllowListSet /\ StepsOf("sign") # {}) =>
          Includes(policy.allowedDomains, extractDomain(agentCall.url))
    /\ (StepsOf("record") # {} /\ history # <<>>) =>
          history[Len(history)].domain = extractDomain(agentCall.url)

\* what executePayment checks and records: the host of the facilitator
C36_FacilitatorDomainChecked ==
    /\ (AllowListSet /\ StepsOf("sign") # {}) =>
          Includes(policy.allowedDomains,
                   extractDomain(agentCall.paymentRequest.facilitatorUrl))
    /\ (StepsOf("record") # {} /\ history # <<>>) =>
          history[Len(history)].domain
             = extractDomain(agentCall.paymentRequest.facilitatorUrl)

\* a resource of a host that is not in the list was paid for
C36_PaidOffList ==
    /\ AllowListSet
    /\ StepsOf("record") # {}
    /\ ~Includes(policy.allowedDomains, extractDomain(agentCall.url))
    /\ agentPc = "idle" /\ agentOut.status = 200

----------------------------------------------------------------------------
(* Properties of one fetch call as a whole *)

\* the request fetch re-issued after paying
Reissued == {i \in StepsOf("request") : \E j \in StepsOf("record") : j < i}

\* C37: one fetch call runs at most one payment sub-flow (one budget check,
\* one signature, one call of the facilitator submission, one record), and
\* after paying it re-issues the request exactly once and returns the answer
\* to that whatever its status, a 402 included
C37_OnePaymentPerFetch ==
    agentCall.op = "fetch" =>
        /\ Cardinality(StepsOf("assert")) <= 1
        /\ Cardinality(StepsOf("sign")) <= 1
        /\ Cardinality(StepsOf("submitted")) <= 1
        /\ Cardinality(StepsOf("record")) <= 1
        /\ Cardinality(Reissued) <= 1
        /\ (StepsOf("record") # {} /\ agentPc = "idle" /\ agentOut.kind = "returned") =>
              /\ Cardinality(Reissued) = 1
              /\ Reissued = {Len(steps)}
              /\ agentOut.status = steps[Len(steps)].response.status

\* a fetch paid once, re-issued the request with the receipt, was answered
\* 402 again and returned that 402
C37_Witness ==
    /\ agentCall.op = "fetch"
    /\ agentPc = "idle"
    /\ Cardinality(StepsOf("record")) = 1
    /\ Reissued = {Len(steps)}
    /\ steps[Len(steps)].response.status = 402
    /\ steps[Len(steps)].token = agentCall.receiptToken
    /\ agentOut = [kind |-> "returned", status |-> 402, error |-> NoError]

----------------------------------------------------------------------------
(* Properties of the payloads of one payment sub-flow *)

\* C38: all submissions of one payment sub-flow, the first attempt and every
\* retry, carry the identical payload: the one authorization the sub-flow
\* signed, with its nonce, and the signature over it
C38_OnePayloadPerSubFlow ==
    /\ Len(payment.signed) <= 1
    /\ \A i \in 1..Len(payment.posted) :
          /\ payment.posted[i] = payment.posted[1]
          /\ AuthorizationOf(payment.posted[i]) = payment.signed[1]
          /\ SignatureOf(payment.posted[i]).digest.message
                = TypedMessage(payment.signed[1])
    /\ Cardinality({AuthorizationOf(payment.posted[i]).nonce :
                       i \in 1..Len(payment.posted)}) <= 1

\* a sub-flow posted its payload three times, the first attempt and two
\* retries, and then got its receipt
C38_Witness ==
    /\ payment.pc = "done"
    /\ payment.out.kind = "returned"
    /\ Len(payment.posted) = 3
    /\ payment.attempt = 2
    /\ Len(payment.signed) = 1
    /\ payment.posted[3] = payment.posted[1]

----------------------------------------------------------------------------
(* Properties of what a payment sub-flow leaves behind *)

InSubFlow == agentPc \in {"assert", "sign", "submit"}

\* the value of the authorization the sub-flow signs for the announced price
SignedValue ==
    BigInt(buildTransferAuthorization("0xAa01", PayTo, Announced.price,
                                      "0xab..ab", now).value)

\* the step caches the receipt and records the spend, in that order
SuccessPath ==
    /\ agentPc = "submit"
    /\ agentOut'.kind # "threw"
    /\ steps' = steps \o <<steps'[Len(steps) + 1], steps'[Len(steps) + 2],
                           steps'[Len(steps) + 3]>>
    /\ steps'[Len(steps) + 1].error = NoError
    /\ steps'[Len(steps) + 2].event = "store"
    /\ steps'[Len(steps) + 3].event = "record"
    /\ MapGet(receiptCache', Announced.contentId.s) # Undefined
    /\ MapGet(receiptCache', Announced.contentId.s).token = agentCall'.receiptToken
    /\ totalSpent' = totalSpent + SignedValue
    /\ Len(history') = Len(history) + 1
    /\ BigInt(Str(history'[Len(history')].amount)) = SignedValue

\* C39: no step of a payment sub-flow changes totalSpent, the history or the
\* receipt cache, except the one that ends it with success, which caches the
\* receipt and then records a spend of the value of the signed
\* authorization; a sub-flow that fails at the budget check, at the
\* signature or at the facilitator leaves the three as they were
C39_FailureLeavesNoTrace ==
    [][InSubFlow =>
          \/ UNCHANGED <<totalSpent, history, receiptCache>>
          \/ SuccessPath]_vars

\* the second call of a client failed at the facilitator, and the one payment
\* of the first call is all that is recorded and cached
C39_Witness ==
    /\ calls = 2
    /\ agentPc = "idle"
    /\ StepsOf("submitted") # {}
    /\ agentOut.kind = "threw"
    /\ agentOut.error = X402PaymentError("FACILITATOR_ERROR")
    /\ Len(history) = 1
    /\ totalSpent = 500000
    /\ receiptCache # {}

\* a sub-flow failed at the signature with nothing recorded or cached
C39_SignatureFailed ==
    /\ agentPc = "idle"
    /\ StepsOf("sign") # {}
    /\ steps[Len(steps)].event = "sign"
    /\ agentOut = [kind |-> "threw", status |-> 0, error |-> PlainError]
    /\ totalSpent = 0 /\ history = <<>> /\ receiptCache = {}

====
